---- MODULE Spec2Model ----
(***************************************************************************)
(* Model of the Nyx native HTTP server (src/native/nyx_httpd.c): the route *)
(* and middleware registries, the request parser, the response helpers,    *)
(* the serializer and the per-connection pipeline handle_client.           *)
(*                                                                         *)
(* C strings are TLA+ strings; the character at index i of s is            *)
(* SubSeq(s, i, i).  A NULL char* is the sentinel NULL, which no input     *)
(* contains.  Undefined behaviour (a read through a NULL or wild pointer,  *)
(* a write past the end of an array) is a nondeterministic choice between  *)
(* a crash of the process and the continuations a build can produce; the   *)
(* variable ub records that it happened.                                   *)
(***************************************************************************)
EXTENDS Integers, Sequences, FiniteSets, TLC

VARIABLES
    srv,            \* lifecycle of the NyxHttpServer: "created", "running", "failed"
    routes,         \* server->routes[0 .. route_count-1]
    middlewares,    \* server->middlewares[] with server->middleware_data[]
    access_log,     \* server->access_log is an open sink
    error_log,      \* server->error_log is an open sink
    error_lines,    \* history: the messages log_error wrote, in order
    running,        \* server->running
    listen_socket,  \* server->listen_socket: "INVALID" or "fd"
    listen_fd,      \* the listening descriptor in the kernel: "none", "open" or "closed"
    spc,            \* position of the thread inside nyx_httpd_start, "none" before the call
    stop_pc,        \* position of the thread inside nyx_httpd_stop, "none" before the call
    call,           \* the last registration call: its operation, arguments and return value
    route_args,     \* history: the arguments of the nyx_httpd_route calls that succeeded
    pc,             \* position of handle_client for the current connection
    client_socket,  \* "none", "open" or "closed"
    bytes_read,     \* result of the single recv
    buffer,         \* the bytes recv stored (NUL-terminated by line 475)
    req,            \* the NyxHttpRequest, or NoObject
    resp,           \* the NyxHttpResponse, or NoObject
    mw_i,           \* loop index of the middleware loop
    matched,        \* index of the route whose handler runs, 0 when none
    events,         \* history: the stages this connection went through, in order
    wire,           \* history: the send calls made on the client socket, in order
    access_lines,   \* history: access-log lines written for this connection
    live,           \* heap blocks of this connection that are allocated
    ub              \* undefined behaviour was executed for this connection

vars == <<srv, routes, middlewares, access_log, call, route_args, pc, client_socket, bytes_read,
          buffer, req, resp, mw_i, matched, events, wire, access_lines, live, ub,
          error_log, error_lines, running, listen_socket, listen_fd, spc, stop_pc>>

\* the error log, the running flag, the listening socket and the two threads
lifeVars == <<error_log, error_lines, running, listen_socket, listen_fd, spc, stop_pc>>
srvVars == <<srv, routes, middlewares, access_log, call, route_args, lifeVars>>
connVars == <<pc, client_socket, bytes_read, buffer, req, resp, mw_i, matched,
              events, wire, access_lines, live, ub>>

(***************************************************************************)
(* Program constants.                                                      *)
(***************************************************************************)
MAX_ROUTES == 256
MAX_MIDDLEWARE == 32
MAX_HEADERS == 64
BUFFER_SIZE == 8192
HEADER_NAME_SIZE == 128
HEADER_VALUE_SIZE == 512
ROUTE_METHOD_SIZE == 16
ROUTE_PATH_SIZE == 256
METHOD_SIZE == 16
PATH_SIZE == 256
QUERY_SIZE == 512
PROTOCOL_SIZE == 16
ERROR_BODY_SIZE == 1024

(***************************************************************************)
(* Bounds of the model.                                                    *)
(***************************************************************************)
MaxRegRoutes == 2       \* routes registered before start in Spec
MaxRegMiddleware == 2   \* middleware entries registered before start in Spec
MaxErrorLines == 2      \* error-log lines recorded in error_lines
MaxVaried == 2          \* header entries of free name and value in a container

NULL == "<NULL>"
NoObject == [alloc |-> FALSE]
CRLF == "\r\n"

(***************************************************************************)
(* C string primitives.                                                    *)
(***************************************************************************)
Ch(s, i) == SubSeq(s, i, i)

Min(S) == CHOOSE i \in S : \A j \in S : i <= j
Max(S) == CHOOSE i \in S : \A j \in S : i >= j

\* n copies of the string c
RECURSIVE Rep(_, _)
Rep(c, n) ==
    IF n <= 0 THEN ""
    ELSE IF n % 2 = 0 THEN LET h == Rep(c, n \div 2) IN h \o h
    ELSE c \o Rep(c, n - 1)

\* strchr(s + from - 1, c): index of the first c at or after from, 0 for NULL
strchr(s, c, from) ==
    LET S == {i \in from .. Len(s) : Ch(s, i) = c}
    IN  IF S = {} THEN 0 ELSE Min(S)

\* strrchr(s, c): index of the last c, 0 for NULL
strrchr(s, c) ==
    LET S == {i \in 1 .. Len(s) : Ch(s, i) = c}
    IN  IF S = {} THEN 0 ELSE Max(S)

\* strstr(s + from - 1, "\r\n"): index of the first CRLF at or after from, 0 for NULL
strstr_crlf(s, from) ==
    LET S == {i \in from .. Len(s) - 1 : SubSeq(s, i, i + 1) = CRLF}
    IN  IF S = {} THEN 0 ELSE Min(S)

\* strncpy(dst, src, size - 1) into a zero-filled array of size bytes
strncpy(src, size) ==
    IF Len(src) <= size - 1 THEN src ELSE SubSeq(src, 1, size - 1)

Lower ==
    [c \in {"A","B","C","D","E","F","G","H","I","J","K","L","M","N","O","P","Q",
            "R","S","T","U","V","W","X","Y","Z"} |->
        CASE c = "A" -> "a" [] c = "B" -> "b" [] c = "C" -> "c" [] c = "D" -> "d"
          [] c = "E" -> "e" [] c = "F" -> "f" [] c = "G" -> "g" [] c = "H" -> "h"
          [] c = "I" -> "i" [] c = "J" -> "j" [] c = "K" -> "k" [] c = "L" -> "l"
          [] c = "M" -> "m" [] c = "N" -> "n" [] c = "O" -> "o" [] c = "P" -> "p"
          [] c = "Q" -> "q" [] c = "R" -> "r" [] c = "S" -> "s" [] c = "T" -> "t"
          [] c = "U" -> "u" [] c = "V" -> "v" [] c = "W" -> "w" [] c = "X" -> "x"
          [] c = "Y" -> "y" [] c = "Z" -> "z"]

tolower(c) == IF c \in DOMAIN Lower THEN Lower[c] ELSE c

\* strcasecmp taken for strcmp
strcasecmp_eq_exact(a, b) == a = b

\* strcasecmp(a, b) == 0
strcasecmp_eq(a, b) ==
    /\ Len(a) = Len(b)
    /\ \A i \in 1 .. Len(a) : tolower(Ch(a, i)) = tolower(Ch(b, i))

\* strcmp(a, b) == 0 for two non-NULL strings
strcmp_eq(a, b) == a = b

\* printf's %d and %zu
RECURSIVE Decimal(_)
Decimal(n) ==
    IF n < 0 THEN "-" \o Decimal(0 - n)
    ELSE IF n < 10 THEN Ch("0123456789", n + 1)
    ELSE Decimal(n \div 10) \o Ch("0123456789", (n % 10) + 1)

\* atoi of a string of decimal digits, 0 when it does not start with a digit
RECURSIVE Atoi(_, _)
Atoi(s, acc) ==
    IF s = "" \/ strchr("0123456789", Ch(s, 1), 1) = 0 THEN acc
    ELSE Atoi(SubSeq(s, 2, Len(s)), acc * 10 + strchr("0123456789", Ch(s, 1), 1) - 1)

(***************************************************************************)
(* HTTP parsing.                                                           *)
(***************************************************************************)
ParseFailed == [ok |-> FALSE]

\* parse_request_line cutting each field to the size of its array
parse_request_line_truncating(line) ==
    LET space1 == strchr(line, " ", 1)
        p == space1 + 1
        space2 == strchr(line, " ", p)
        q == strchr(line, "?", p)
        hasQuery == q # 0 /\ q < space2
    IN  IF space1 = 0 \/ space2 = 0 THEN ParseFailed
        ELSE [ok |-> TRUE,
              method |-> strncpy(SubSeq(line, 1, space1 - 1), METHOD_SIZE),
              path |-> strncpy(SubSeq(line, p, (IF hasQuery THEN q ELSE space2) - 1),
                               PATH_SIZE),
              query |-> IF hasQuery
                        THEN strncpy(SubSeq(line, q + 1, space2 - 1), QUERY_SIZE)
                        ELSE "",
              protocol |-> strncpy(SubSeq(line, space2 + 1, Len(line)), PROTOCOL_SIZE)]

\* parse_request_line splitting the target at its last '?'
parse_request_line_last_mark(line) ==
    LET space1 == strchr(line, " ", 1)
        p == space1 + 1
        space2 == strchr(line, " ", p)
        q == strrchr(SubSeq(line, 1, space2 - 1), "?")
        hasQuery == q # 0 /\ q >= p
        path_len == IF hasQuery THEN q - p ELSE space2 - p
        query_len == IF hasQuery THEN space2 - q - 1 ELSE 0
        proto == SubSeq(line, space2 + 1, Len(line))
    IN  IF space1 = 0 \/ space1 - 1 >= METHOD_SIZE \/ space2 = 0 THEN ParseFailed
        ELSE IF path_len >= PATH_SIZE \/ query_len >= QUERY_SIZE THEN ParseFailed
        ELSE IF Len(proto) >= PROTOCOL_SIZE THEN ParseFailed
        ELSE [ok |-> TRUE,
              method |-> SubSeq(line, 1, space1 - 1),
              path |-> SubSeq(line, p, p + path_len - 1),
              query |-> IF hasQuery THEN SubSeq(line, q + 1, space2 - 1) ELSE "",
              protocol |-> proto]

\* parse_request_line: line is the buffer cut at the first CRLF
parse_request_line(line) ==
    LET space1 == strchr(line, " ", 1)
        method_len == space1 - 1
        p == space1 + 1
        space2 == strchr(line, " ", p)
        q == strchr(line, "?", p)
        hasQuery == q # 0 /\ q < space2
        path_len == IF hasQuery THEN q - p ELSE space2 - p
        query_len == IF hasQuery THEN space2 - q - 1 ELSE 0
        proto == SubSeq(line, space2 + 1, Len(line))
    IN  IF space1 = 0 THEN ParseFailed
        ELSE IF method_len >= METHOD_SIZE THEN ParseFailed
        ELSE IF space2 = 0 THEN ParseFailed
        ELSE IF path_len >= PATH_SIZE THEN ParseFailed
        ELSE IF hasQuery /\ query_len >= QUERY_SIZE THEN ParseFailed
        ELSE IF Len(proto) >= PROTOCOL_SIZE THEN ParseFailed
        ELSE [ok |-> TRUE,
              method |-> SubSeq(line, 1, method_len),
              path |-> SubSeq(line, p, p + path_len - 1),
              query |-> IF hasQuery THEN SubSeq(line, q + 1, space2 - 1) ELSE "",
              protocol |-> proto]

\* the loop of line 200: skip spaces and tabs
RECURSIVE SkipBlanks(_, _)
SkipBlanks(line, i) ==
    IF i <= Len(line) /\ Ch(line, i) \in {" ", "\t"} THEN SkipBlanks(line, i + 1) ELSE i

\* parse_header: line is one header line without its CRLF
parse_header(line) ==
    LET colon == strchr(line, ":", 1)
        name_len == colon - 1
        val == SubSeq(line, SkipBlanks(line, colon + 1), Len(line))
    IN  IF colon = 0 THEN ParseFailed
        ELSE IF name_len >= HEADER_NAME_SIZE THEN ParseFailed
        ELSE IF Len(val) >= HEADER_VALUE_SIZE THEN ParseFailed
        ELSE [ok |-> TRUE, name |-> SubSeq(line, 1, name_len), value |-> val]

(***************************************************************************)
(* Request / response management.                                          *)
(***************************************************************************)
\* calloc(1, sizeof(HttpHeaderDict)): ok says whether calloc succeeded
NewDict(ok) == [alloc |-> ok, headers |-> <<>>]

\* str_dup: ok says whether malloc succeeded
str_dup(s, ok) == IF s = NULL \/ ~ok THEN NULL ELSE s

\* create_request: outcome is "null" (the first calloc fails), "no_headers" (the
\* second calloc fails) or "ok"
create_request(outcome) ==
    IF outcome = "null" THEN NoObject
    ELSE [alloc |-> TRUE, method |-> NULL, path |-> NULL, query_string |-> NULL,
          protocol |-> NULL, host |-> NULL, content_type |-> NULL,
          content_length |-> 0, headers |-> NewDict(outcome = "ok"),
          remote_addr |-> NULL]

\* create_response
create_response(outcome) ==
    IF outcome = "null" THEN NoObject
    ELSE [alloc |-> TRUE, status_code |-> 200, status_text |-> "OK",
          headers |-> NewDict(outcome = "ok"), body |-> NULL, body_length |-> 0]

\* the heap blocks an object holds after create_request / create_response
Blocks(name, outcome) ==
    CASE outcome = "null" -> {}
      [] outcome = "no_headers" -> {name}
      [] OTHER -> {name, name \o ".headers"}

\* destroy_request / destroy_response: the blocks they free
Destroyed(name, obj) ==
    IF ~obj.alloc THEN {}
    ELSE IF obj.headers.alloc THEN {name, name \o ".headers"} ELSE {name}

(***************************************************************************)
(* Response helpers.                                                       *)
(***************************************************************************)
\* nyx_http_response_set_header replacing the value of an entry of that name
nyx_http_response_set_header_in_place(r, name, value) ==
    IF ~r.alloc \/ ~r.headers.alloc \/ name = NULL \/ value = NULL THEN r
    ELSE LET S == {i \in 1 .. Len(r.headers.headers) :
                      strcasecmp_eq(r.headers.headers[i].name, name)}
         IN  IF S # {}
             THEN [r EXCEPT !.headers.headers[Min(S)].value =
                                strncpy(value, HEADER_VALUE_SIZE)]
             ELSE IF Len(r.headers.headers) >= MAX_HEADERS THEN r
             ELSE [r EXCEPT !.headers.headers =
                       Append(@, [name |-> strncpy(name, HEADER_NAME_SIZE),
                                  value |-> strncpy(value, HEADER_VALUE_SIZE)])]

\* nyx_http_response_set_header with the capacity check of line 250 off by one
nyx_http_response_set_header_off_by_one(r, name, value) ==
    IF ~r.alloc \/ ~r.headers.alloc \/ name = NULL \/ value = NULL THEN r
    ELSE IF Len(r.headers.headers) > MAX_HEADERS THEN r
    ELSE [r EXCEPT !.headers.headers =
              Append(@, [name |-> strncpy(name, HEADER_NAME_SIZE),
                         value |-> strncpy(value, HEADER_VALUE_SIZE)])]

nyx_http_response_set_header(r, name, value) ==
    IF ~r.alloc \/ ~r.headers.alloc \/ name = NULL \/ value = NULL THEN r
    ELSE IF Len(r.headers.headers) >= MAX_HEADERS THEN r
    ELSE [r EXCEPT !.headers.headers =
              Append(@, [name |-> strncpy(name, HEADER_NAME_SIZE),
                         value |-> strncpy(value, HEADER_VALUE_SIZE)])]

\* strlen of a body that may be NULL
BodyLength(s) == IF s = NULL THEN 0 ELSE Len(s)

nyx_http_response_json(r, status, json) ==
    nyx_http_response_set_header(
        [r EXCEPT !.status_code = status, !.body = json, !.body_length = BodyLength(json)],
        "Content-Type", "application/json")

nyx_http_response_html(r, status, html) ==
    nyx_http_response_set_header(
        [r EXCEPT !.status_code = status, !.body = html, !.body_length = BodyLength(html)],
        "Content-Type", "text/html; charset=utf-8")

nyx_http_response_text(r, status, text) ==
    nyx_http_response_set_header(
        [r EXCEPT !.status_code = status, !.body = text, !.body_length = BodyLength(text)],
        "Content-Type", "text/plain; charset=utf-8")

\* the snprintf of lines 283-286 into error_body[1024]
ErrorBody(status, message) ==
    LET full == "<html><head><title>" \o Decimal(status) \o " Error</title></head>"
                \o "<body><h1>" \o Decimal(status) \o " Error</h1><p>"
                \o (IF message = NULL THEN "Unknown error" ELSE message)
                \o "</p></body></html>"
    IN  IF Len(full) <= ERROR_BODY_SIZE - 1 THEN full
        ELSE SubSeq(full, 1, ERROR_BODY_SIZE - 1)

\* the reason phrase of a status code
ReasonPhrase(status) ==
    CASE status = 200 -> "OK"
      [] status = 404 -> "Not Found"
      [] OTHER -> "Error"

\* nyx_http_response_error setting the status text to the phrase of the code
nyx_http_response_error_with_phrase(r, status, message) ==
    LET body == ErrorBody(status, message)
    IN  nyx_http_response_set_header(
            [r EXCEPT !.status_code = status, !.status_text = ReasonPhrase(status),
                      !.body = body, !.body_length = Len(body)],
            "Content-Type", "text/html")

nyx_http_response_error(r, status, message) ==
    LET body == ErrorBody(status, message)
    IN  nyx_http_response_set_header(
            [r EXCEPT !.status_code = status, !.body = body, !.body_length = Len(body)],
            "Content-Type", "text/html")

\* lines 320-334: the Content-Type for the extension ext, NULL when the table
\* has none; ext runs from a '.' of the path to its end
ExtContentType(ext) ==
    CASE ext = ".html" \/ ext = ".htm" -> "text/html"
      [] ext = ".css" -> "text/css"
      [] ext = ".js" -> "application/javascript"
      [] ext = ".json" -> "application/json"
      [] ext = ".png" -> "image/png"
      [] ext = ".jpg" \/ ext = ".jpeg" -> "image/jpeg"
      [] OTHER -> NULL

\* the extension taken from the first '.' of the path
FileContentType_first_dot(file_path) ==
    LET ext == strchr(file_path, ".", 1)
    IN  IF ext = 0 THEN NULL
        ELSE ExtContentType(SubSeq(file_path, ext, Len(file_path)))

\* lines 320-334: strrchr(file_path, '.') and the table
FileContentType(file_path) ==
    LET ext == strrchr(file_path, ".")
    IN  IF ext = 0 THEN NULL
        ELSE ExtContentType(SubSeq(file_path, ext, Len(file_path)))

\* nyx_http_response_file.  fs is what the file system and the heap answer:
\* fs.open says fopen succeeds, fs.content is what the file holds, fs.malloc
\* says the buffer for it can be allocated.  (The result of fread is not
\* looked at; the file is read whole here.)
nyx_http_response_file(r, file_path, fs) ==
    IF ~fs.open
    THEN [ret |-> -1, resp |-> nyx_http_response_error(r, 404, "File not found"),
          content |-> FALSE]
    ELSE IF ~fs.malloc
    THEN [ret |-> -1,
          resp |-> nyx_http_response_error(r, 500, "Memory allocation failed"),
          content |-> FALSE]
    ELSE LET r1 == [r EXCEPT !.status_code = 200, !.body = fs.content,
                             !.body_length = Len(fs.content)]
             type == FileContentType(file_path)
         IN  [ret |-> 0,
              resp |-> IF type = NULL THEN r1
                       ELSE nyx_http_response_set_header(r1, "Content-Type", type),
              content |-> TRUE]

(***************************************************************************)
(* Request helpers.                                                        *)
(***************************************************************************)
\* nyx_http_request_get_header: the value of the first entry whose name matches
nyx_http_request_get_header(r, name) ==
    IF ~r.alloc \/ ~r.headers.alloc \/ name = NULL THEN NULL
    ELSE LET S == {i \in 1 .. Len(r.headers.headers) :
                      strcasecmp_eq(r.headers.headers[i].name, name)}
         IN  IF S = {} THEN NULL ELSE r.headers.headers[Min(S)].value

(***************************************************************************)
(* Registries.                                                             *)
(***************************************************************************)
NoCall == [op |-> "none"]

\* nyx_httpd_route with the capacity check of line 409 off by one
nyx_httpd_route_off_by_one(rts, a) ==
    IF ~a.server \/ a.method = NULL \/ a.path = NULL \/ a.handler = NULL
    THEN [ret |-> -1, routes |-> rts]
    ELSE IF Len(rts) > MAX_ROUTES THEN [ret |-> -1, routes |-> rts]
    ELSE [ret |-> 0,
          routes |-> Append(rts, [method |-> strncpy(a.method, ROUTE_METHOD_SIZE),
                                  path |-> strncpy(a.path, ROUTE_PATH_SIZE),
                                  handler |-> a.handler,
                                  user_data |-> a.user_data])]

\* nyx_httpd_route on the route table rts; a.server says the server pointer is not NULL
nyx_httpd_route(rts, a) ==
    IF ~a.server \/ a.method = NULL \/ a.path = NULL \/ a.handler = NULL
    THEN [ret |-> -1, routes |-> rts]
    ELSE IF Len(rts) >= MAX_ROUTES THEN [ret |-> -1, routes |-> rts]
    ELSE [ret |-> 0,
          routes |-> Append(rts, [method |-> strncpy(a.method, ROUTE_METHOD_SIZE),
                                  path |-> strncpy(a.path, ROUTE_PATH_SIZE),
                                  handler |-> a.handler,
                                  user_data |-> a.user_data])]

\* nyx_httpd_middleware on the middleware chain mws
nyx_httpd_middleware(mws, a) ==
    IF ~a.server \/ a.handler = NULL THEN [ret |-> -1, middlewares |-> mws]
    ELSE IF Len(mws) >= MAX_MIDDLEWARE THEN [ret |-> -1, middlewares |-> mws]
    ELSE [ret |-> 0,
          middlewares |-> Append(mws, [handler |-> a.handler, user_data |-> a.user_data])]

(***************************************************************************)
(* Handlers and middleware: the callbacks the application registers.  Each *)
(* is a fixed function of the request, the response and its user data.     *)
(***************************************************************************)
\* nyx_http_response_set_header(r, name, value) called n times in a row (the
\* calls are taken by halves)
RECURSIVE SetHeaders(_, _, _, _)
SetHeaders(r, n, name, value) ==
    IF n = 0 THEN r
    ELSE IF n = 1 THEN nyx_http_response_set_header(r, name, value)
    ELSE LET first == SetHeaders(r, n \div 2, name, value)
         IN  IF ~first.alloc THEN first
             ELSE SetHeaders(first, n - (n \div 2), name, value)

\* the callback fn applied to (rq, rs, user_data): the response it leaves
RunHandler(fn, rq, rs, user_data) ==
    CASE fn = "handle_root" -> nyx_http_response_html(rs, 200, "hello")
      [] fn = "handle_status" -> nyx_http_response_json(rs, 200, "{}")
      [] fn = "handle_headers" ->
            nyx_http_response_text(
                nyx_http_response_set_header(
                    SetHeaders(rs, 12, Rep("n", 127), Rep("v", 511)),
                    Rep("n", 16), Rep("v", 400)),
                200, "hello")
      [] fn = "logging_middleware" -> rs
      [] fn = "tag_middleware" ->
            nyx_http_response_set_header(rs, "X-Tag", Decimal(user_data))
      [] OTHER -> rs

(***************************************************************************)
(* Inputs.                                                                 *)
(***************************************************************************)
Buffers ==
    { "GET /a HTTP/1.1\r\nHost: x\r\n\r\n",
      "GET /b?q=1 HTTP/1.1\r\n\r\n",
      "GARBAGE\r\n\r\n",
      "GET /a",
      Rep("M", 16) \o " /a HTTP/1.1\r\n\r\n",
      Rep("M", 15) \o " /a HTTP/1.1\r\n\r\n" }

RouteArgs ==
    { [server |-> TRUE, method |-> "GET", path |-> "/a",
       handler |-> "handle_root", user_data |-> 1],
      [server |-> TRUE, method |-> "GET", path |-> "/a",
       handler |-> "handle_headers", user_data |-> 2],
      [server |-> TRUE, method |-> Rep("M", 17), path |-> "/a",
       handler |-> "handle_status", user_data |-> 3] }

MiddlewareArgs ==
    { [server |-> TRUE, handler |-> "logging_middleware", user_data |-> 1],
      [server |-> TRUE, handler |-> "tag_middleware", user_data |-> 2] }

\* arguments of the registration calls of SpecReg: one valid call and the invalid ones
RegRouteArgs ==
    { [server |-> TRUE, method |-> "GET", path |-> "/a",
       handler |-> "handle_root", user_data |-> 1],
      [server |-> FALSE, method |-> "GET", path |-> "/a",
       handler |-> "handle_root", user_data |-> 1],
      [server |-> TRUE, method |-> NULL, path |-> "/a",
       handler |-> "handle_root", user_data |-> 1],
      [server |-> TRUE, method |-> "GET", path |-> NULL,
       handler |-> "handle_root", user_data |-> 1],
      [server |-> TRUE, method |-> "GET", path |-> "/a",
       handler |-> NULL, user_data |-> 1] }

RegMiddlewareArgs ==
    { [server |-> TRUE, handler |-> "logging_middleware", user_data |-> 1],
      [server |-> FALSE, handler |-> "logging_middleware", user_data |-> 1],
      [server |-> TRUE, handler |-> NULL, user_data |-> 1] }

\* the environment of a connection: env.alloc the outcomes of create_request and
\* create_response, env.dup the sets of fields whose str_dup fails, env.send what
\* the socket takes of a send
DupFields == {"method", "path", "query_string", "protocol", "host", "content_type"}

\* memory is short only for whole objects; every send is taken in full
EnvNominal ==
    [alloc |-> {"null", "ok"}, dup |-> {{}}, send |-> {"full"}]

\* any calloc or malloc may fail, a send may be cut short or fail
EnvFaulty ==
    [alloc |-> {"null", "no_headers", "ok"},
     dup |-> {{}} \cup {{f} : f \in DupFields} \cup {DupFields},
     send |-> {"full", "short", "fail"}]

UbOutcomes == {"crash", "continue"}

(***************************************************************************)
(* handle_client: the request line and the header loop (lines 491-529).    *)
(* dupFail is the set of fields whose str_dup fails.                       *)
(***************************************************************************)
\* lines 493-502: the request with the request-line fields stored
StoreRequestLine(buf, r, dupFail) ==
    LET line_end == strstr_crlf(buf, 1)
        rl == IF line_end = 0 THEN ParseFailed
              ELSE parse_request_line(SubSeq(buf, 1, line_end - 1))
    IN  IF rl.ok
        THEN [r EXCEPT !.method = str_dup(rl.method, "method" \notin dupFail),
                       !.path = str_dup(rl.path, "path" \notin dupFail),
                       !.query_string = str_dup(rl.query, "query_string" \notin dupFail),
                       !.protocol = str_dup(rl.protocol, "protocol" \notin dupFail)]
        ELSE r

\* lines 513-526: one parsed header stored in the request
StoreHeader(r, h, dupFail) ==
    LET r1 == [r EXCEPT !.headers.headers = Append(@, [name |-> h.name, value |-> h.value])]
    IN  IF strcasecmp_eq(h.name, "Host")
        THEN [r1 EXCEPT !.host = str_dup(h.value, "host" \notin dupFail)]
        ELSE IF strcasecmp_eq(h.name, "Content-Type")
        THEN [r1 EXCEPT !.content_type = str_dup(h.value, "content_type" \notin dupFail)]
        ELSE IF strcasecmp_eq(h.name, "Content-Length")
        THEN [r1 EXCEPT !.content_length = Atoi(h.value, 0)]
        ELSE r1

\* lines 508-528, one turn of the loop: the line from st.header_line to the
\* CRLF at line_end.  st.fault becomes "null_dict" when a header line parsed
\* while req->headers is NULL (hdict->count reads through NULL); that line is
\* then not stored.  st.done says the empty line was met.
HeaderLine(buf, line_end, st, dupFail) ==
    IF line_end = st.header_line THEN [st EXCEPT !.done = TRUE]
    ELSE LET h == parse_header(SubSeq(buf, st.header_line, line_end - 1))
             r == st.req
             nx == [st EXCEPT !.header_line = line_end + 2]
         IN  IF ~h.ok THEN nx
             ELSE IF ~r.headers.alloc THEN [nx EXCEPT !.fault = "null_dict"]
             ELSE IF Len(r.headers.headers) < MAX_HEADERS
             THEN [nx EXCEPT !.req = StoreHeader(r, h, dupFail)]
             ELSE nx

\* the turns of the loop for the CRLFs found at the positions lo..hi of buf,
\* from left to right (the positions are taken by halves)
RECURSIVE HeaderSpan(_, _, _, _, _)
HeaderSpan(buf, lo, hi, st, dupFail) ==
    IF lo > hi THEN st
    ELSE IF lo = hi
    THEN IF st.done \/ SubSeq(buf, lo, lo + 1) # CRLF THEN st
         ELSE HeaderLine(buf, lo, st, dupFail)
    ELSE LET mid == (lo + hi) \div 2
             left == HeaderSpan(buf, lo, mid, st, dupFail)
         IN  IF left.done THEN left
             ELSE HeaderSpan(buf, mid + 1, hi, left, dupFail)

\* lines 507-529 from header_line on: the loop runs until the empty line or
\* until strstr finds no CRLF
HeaderLoop(buf, header_line, r, dupFail, fault) ==
    LET st == HeaderSpan(buf, header_line, Len(buf) - 1,
                         [req |-> r, fault |-> fault, done |-> FALSE,
                          header_line |-> header_line], dupFail)
    IN  [req |-> st.req, fault |-> st.fault]

\* lines 491-529.  fault is "wild" when the buffer holds no CRLF: line 505 then
\* computes NULL + 2 and line 507 hands it to strstr.
ParseRequest(buf, r, dupFail) ==
    LET line_end == strstr_crlf(buf, 1)
        r1 == StoreRequestLine(buf, r, dupFail)
    IN  IF line_end = 0 THEN [req |-> r1, fault |-> "wild"]
        ELSE HeaderLoop(buf, line_end + 2, r1, dupFail, "none")

\* the strings str_dup allocated for rq (never freed by destroy_request)
DupBlocks(rq) ==
    {"req." \o f : f \in {g \in {"method", "path", "query_string", "protocol",
                                 "host", "content_type"} : rq[g] # NULL}}

(***************************************************************************)
(* handle_client: route matching (lines 536-546).                          *)
(***************************************************************************)
\* the comparison of line 540-541 for route rt: "ub" when it hands NULL to strcmp
RouteCompare(rt, rq) ==
    IF rq.method = NULL THEN "ub"
    ELSE IF ~strcmp_eq(rt.method, rq.method) THEN "no"
    ELSE IF rq.path = NULL THEN "ub"
    ELSE IF strcmp_eq(rt.path, rq.path) THEN "yes" ELSE "no"

\* the scan from index i on: the index of the first route that compares equal
\* (0 when none), or the index at which strcmp is handed NULL
RECURSIVE RouteScan(_, _, _)
RouteScan(rts, rq, i) ==
    IF i > Len(rts) THEN [idx |-> 0, ub_at |-> 0]
    ELSE LET c == RouteCompare(rts[i], rq)
         IN  IF c = "ub" THEN [idx |-> 0, ub_at |-> i]
             ELSE IF c = "yes" THEN [idx |-> i, ub_at |-> 0]
             ELSE RouteScan(rts, rq, i + 1)

FindRoute(rts, rq) == RouteScan(rts, rq, 1)

(***************************************************************************)
(* send_response (lines 431-463).                                          *)
(***************************************************************************)
\* snprintf(buffer + len, sizeof(buffer) - len, ...) producing the string s.
\* st.text is the defined content of buffer, st.len the running length; st.oob
\* says a call wrote past the end of buffer (len > sizeof(buffer) makes the
\* size argument wrap around).
Snprintf(st, s) ==
    IF st.len > BUFFER_SIZE THEN [st EXCEPT !.len = @ + Len(s), !.oob = TRUE]
    ELSE IF st.len = BUFFER_SIZE THEN [st EXCEPT !.len = @ + Len(s)]
    ELSE LET room == BUFFER_SIZE - st.len - 1
         IN  [st EXCEPT !.text = @ \o (IF Len(s) <= room THEN s ELSE SubSeq(s, 1, room)),
                        !.len = @ + Len(s)]

RECURSIVE RenderHeaders(_, _, _)
RenderHeaders(hs, i, st) ==
    IF i > Len(hs) THEN st
    ELSE RenderHeaders(hs, i + 1, Snprintf(st, hs[i].name \o ": " \o hs[i].value \o CRLF))

\* lines 432-452: the header block of r
Serialize(r) ==
    LET s0 == Snprintf([text |-> "", len |-> 0, oob |-> FALSE],
                       "HTTP/1.1 " \o Decimal(r.status_code) \o " "
                       \o (IF r.status_text = NULL THEN "OK" ELSE r.status_text) \o CRLF)
        s1 == RenderHeaders(r.headers.headers, 1, s0)
        s2 == Snprintf(s1, "Content-Length: " \o Decimal(r.body_length) \o CRLF)
    IN  Snprintf(s2, CRLF)

\* what in send_response is undefined for r: the read of dict->count through a
\* NULL dict, a write past buffer, or a send of more than sizeof(buffer) bytes
SendFault(r) ==
    IF ~r.headers.alloc THEN "null_dict"
    ELSE IF Serialize(r).oob \/ Serialize(r).len > BUFFER_SIZE THEN "overflow"
    ELSE "none"

\* the send calls of lines 455-460; hdrOut and bodyOut say what the socket took
SendCalls(r, hdrOut, bodyOut) ==
    LET st == Serialize(r)
        hdr == [kind |-> "headers", bytes |-> st.text, n |-> st.len, out |-> hdrOut]
    IN  IF r.body # NULL /\ r.body_length > 0
        THEN << hdr, [kind |-> "body", bytes |-> SubSeq(r.body, 1, r.body_length),
                      n |-> r.body_length, out |-> bodyOut] >>
        ELSE << hdr >>

(***************************************************************************)
(* log_access (lines 118-136).                                             *)
(***************************************************************************)
Dash(s) == IF s = NULL THEN "-" ELSE s

\* log_access writing whether or not the access log is open
log_access_no_sink_check(sink, rq, rs) ==
    << [addr |-> Dash(rq.remote_addr), method |-> Dash(rq.method),
        path |-> Dash(rq.path), protocol |-> Dash(rq.protocol),
        status |-> rs.status_code, size |-> rs.body_length] >>

log_access(sink, rq, rs) ==
    IF ~sink THEN <<>>
    ELSE << [addr |-> Dash(rq.remote_addr), method |-> Dash(rq.method),
             path |-> Dash(rq.path), protocol |-> Dash(rq.protocol),
             status |-> rs.status_code, size |-> rs.body_length] >>

(***************************************************************************)
(* Server lifecycle and registration.                                      *)
(***************************************************************************)
ClientAddr == "127.0.0.1"

\* a connection not yet accepted
FreshConn ==
    /\ client_socket = "none"
    /\ bytes_read = 0
    /\ buffer = ""
    /\ req = NoObject
    /\ resp = NoObject
    /\ mw_i = 0
    /\ matched = 0
    /\ events = <<>>
    /\ wire = <<>>
    /\ access_lines = <<>>
    /\ live = {}
    /\ ub = FALSE

\* nyx_httpd_create: the log sinks may fail to open; both registries are empty
Init ==
    /\ srv = "created"
    /\ routes = <<>>
    /\ middlewares = <<>>
    /\ access_log \in BOOLEAN
    /\ call = NoCall
    /\ route_args = <<>>
    /\ pc = "idle"
    /\ FreshConn
    /\ error_log \in BOOLEAN
    /\ error_lines = <<>>
    /\ running = FALSE
    /\ listen_socket = "INVALID"
    /\ listen_fd = "none"
    /\ spc = "none"
    /\ stop_pc = "none"

RegisterRoute(a) ==
    /\ srv = "created"
    /\ LET r == nyx_httpd_route(routes, a)
       IN  /\ routes' = r.routes
           /\ call' = [op |-> "nyx_httpd_route", args |-> a, ret |-> r.ret]
           /\ route_args' = IF r.ret = 0 THEN Append(route_args, a) ELSE route_args
    /\ UNCHANGED <<srv, middlewares, access_log>>
    /\ UNCHANGED lifeVars
    /\ UNCHANGED connVars

RegisterMiddleware(a) ==
    /\ srv = "created"
    /\ LET r == nyx_httpd_middleware(middlewares, a)
       IN  /\ middlewares' = r.middlewares
           /\ call' = [op |-> "nyx_httpd_middleware", args |-> a, ret |-> r.ret]
    /\ UNCHANGED <<srv, routes, access_log, route_args>>
    /\ UNCHANGED lifeVars
    /\ UNCHANGED connVars

\* log_error writing to every sink, open or not
log_error_no_sink_check(sink, lines, msg) ==
    IF Len(lines) < MaxErrorLines THEN Append(lines, msg) ELSE lines

\* log_error (lines 100-116): the error log after the message msg; lines past
\* MaxErrorLines are not recorded
log_error(sink, lines, msg) ==
    IF ~sink THEN lines
    ELSE IF Len(lines) < MaxErrorLines THEN Append(lines, msg) ELSE lines

\* what socket, bind and listen of lines 577-606 can do
StartOutcomes == {"ok", "socket", "bind", "listen"}

\* the message nyx_httpd_start logs when the call named by outcome fails
StartError(outcome) ==
    CASE outcome = "socket" -> "Failed to create socket"
      [] outcome = "bind" -> "Failed to bind to 0.0.0.0:8080"
      [] outcome = "listen" -> "Failed to listen on socket"
      [] outcome = "accept" -> "Failed to accept connection"

\* nyx_httpd_start up to the accept loop, taken as one step: socket, bind or
\* listen may fail
StartServer ==
    /\ srv = "created"
    /\ \E o \in StartOutcomes :
          /\ srv' = IF o = "ok" THEN "running" ELSE "failed"
          /\ pc' = IF o = "ok" THEN "accept" ELSE pc
          /\ spc' = IF o = "ok" THEN "loop" ELSE "returned_fail"
          /\ running' = (o = "ok")
          /\ listen_socket' = IF o = "socket" THEN "INVALID" ELSE "fd"
          /\ listen_fd' = CASE o = "ok" -> "open" [] o = "socket" -> "none" [] OTHER -> "closed"
          /\ error_lines' = IF o = "ok" THEN error_lines
                            ELSE log_error(error_log, error_lines, StartError(o))
    /\ call' = NoCall
    /\ UNCHANGED <<routes, middlewares, access_log, route_args, error_log, stop_pc>>
    /\ UNCHANGED <<client_socket, bytes_read, buffer, req, resp, mw_i, matched,
                   events, wire, access_lines, live, ub>>

\* the accept of lines 618-634 returning a client socket
AcceptConnection ==
    /\ srv = "running"
    /\ pc \in {"accept", "closed"}
    /\ pc' = "read"
    /\ client_socket' = "open"
    /\ bytes_read' = 0
    /\ buffer' = ""
    /\ req' = NoObject
    /\ resp' = NoObject
    /\ mw_i' = 0
    /\ matched' = 0
    /\ events' = <<>>
    /\ wire' = <<>>
    /\ access_lines' = <<>>
    /\ live' = {}
    /\ ub' = FALSE
    /\ UNCHANGED srvVars

(***************************************************************************)
(* handle_client, one action per stage.                                    *)
(***************************************************************************)
Ev(kind) == [kind |-> kind]
CallEv(kind, idx, entry) ==
    [kind |-> kind, idx |-> idx, fn |-> entry.handler, data |-> entry.user_data]

\* line 470 testing bytes_read < 0
ReadFailed_negative_only(n) == n < 0

\* line 470
ReadFailed(n) == n <= 0

RecvResults ==
    {[n |-> -1, data |-> ""], [n |-> 0, data |-> ""]}
    \cup {[n |-> Len(b), data |-> b] : b \in Buffers}

\* lines 467-475: the single recv
hc_read ==
    /\ pc = "read"
    /\ \E rd \in RecvResults :
          /\ bytes_read' = rd.n
          /\ buffer' = rd.data
          /\ IF ReadFailed(rd.n)
             THEN /\ client_socket' = "closed"
                  /\ events' = Append(events, Ev("close"))
                  /\ pc' = "closed"
             ELSE /\ pc' = "create"
                  /\ UNCHANGED <<client_socket, events>>
    /\ UNCHANGED <<req, resp, mw_i, matched, wire, access_lines, live, ub>>
    /\ UNCHANGED srvVars

\* line 481
CreateFailed(rq, rs) == ~rq.alloc \/ ~rs.alloc

\* lines 477-489: create_request, create_response and the check of both
hc_create(env) ==
    /\ pc = "create"
    /\ \E ro \in env.alloc, so \in env.alloc :
          LET rq == create_request(ro)
              rs == create_response(so)
          IN  IF CreateFailed(rq, rs)
              THEN /\ req' = rq
                   /\ resp' = rs
                   /\ live' = (Blocks("req", ro) \cup Blocks("resp", so))
                              \ (Destroyed("req", rq) \cup Destroyed("resp", rs))
                   /\ client_socket' = "closed"
                   /\ events' = events \o <<Ev("release"), Ev("close")>>
                   /\ pc' = "closed"
              ELSE /\ req' = [rq EXCEPT !.remote_addr = ClientAddr]
                   /\ resp' = rs
                   /\ live' = Blocks("req", ro) \cup Blocks("resp", so)
                   /\ pc' = "parse"
                   /\ UNCHANGED <<client_socket, events>>
    /\ UNCHANGED <<bytes_read, buffer, mw_i, matched, wire, access_lines, ub>>
    /\ UNCHANGED srvVars

\* lines 491-529: the request line and the headers
hc_parse(env) ==
    /\ pc = "parse"
    /\ \E dupFail \in env.dup, o \in UbOutcomes :
          LET pr == ParseRequest(buffer, req, dupFail)
          IN  /\ ub' = (ub \/ pr.fault # "none")
              /\ IF pr.fault # "none" /\ o = "crash"
                 THEN /\ pc' = "crashed"
                      /\ UNCHANGED <<req, live, events>>
                 ELSE /\ req' = pr.req
                      /\ live' = live \cup DupBlocks(pr.req)
                      /\ events' = Append(events, Ev("parse"))
                      /\ pc' = "middleware"
    /\ UNCHANGED <<client_socket, bytes_read, buffer, resp, mw_i, matched, wire,
                   access_lines>>
    /\ UNCHANGED srvVars

\* line 532 with the loop stopping one entry early
MiddlewarePending_one_short(i, count) == i + 1 < count

\* line 532: the loop condition
MiddlewarePending(i, count) == i < count

\* lines 531-534: one iteration of the middleware loop, or its exit
hc_middleware ==
    /\ pc = "middleware"
    /\ \/ /\ MiddlewarePending(mw_i, Len(middlewares))
          /\ LET m == middlewares[mw_i + 1]
             IN  /\ resp' = RunHandler(m.handler, req, resp, m.user_data)
                 /\ events' = Append(events, CallEv("mw", mw_i + 1, m))
          /\ mw_i' = mw_i + 1
          /\ UNCHANGED pc
       \/ /\ ~MiddlewarePending(mw_i, Len(middlewares))
          /\ pc' = "route"
          /\ UNCHANGED <<resp, events, mw_i>>
    /\ UNCHANGED <<client_socket, bytes_read, buffer, req, matched, wire, access_lines,
                   live, ub>>
    /\ UNCHANGED srvVars

\* the routes a scan that handed NULL to strcmp at index i can still select
UbCandidates(i) ==
    {0} \cup {j \in i .. Len(routes) :
                 req.method = NULL \/ strcmp_eq(routes[j].method, req.method)}

\* lines 536-546: the scan of the route table
hc_route ==
    /\ pc = "route"
    /\ LET f == FindRoute(routes, req)
       IN  \/ /\ f.ub_at = 0
              /\ matched' = f.idx
              /\ events' = Append(events, Ev("match"))
              /\ pc' = IF f.idx # 0 THEN "handler" ELSE "default404"
              /\ UNCHANGED ub
           \/ /\ f.ub_at # 0
              /\ ub' = TRUE
              /\ \/ /\ pc' = "crashed"
                    /\ UNCHANGED <<matched, events>>
                 \/ \E j \in UbCandidates(f.ub_at) :
                       /\ matched' = j
                       /\ events' = Append(events, Ev("match"))
                       /\ pc' = IF j # 0 THEN "handler" ELSE "default404"
    /\ UNCHANGED <<client_socket, bytes_read, buffer, req, resp, mw_i, wire,
                   access_lines, live>>
    /\ UNCHANGED srvVars

\* line 542: the handler of the matched route
hc_handler ==
    /\ pc = "handler"
    /\ LET route == routes[matched]
       IN  /\ resp' = RunHandler(route.handler, req, resp, route.user_data)
           /\ events' = Append(events, CallEv("handler", matched, route))
    /\ pc' = "send"
    /\ UNCHANGED <<client_socket, bytes_read, buffer, req, mw_i, matched, wire,
                   access_lines, live, ub>>
    /\ UNCHANGED srvVars

\* line 550
Default404(r) == nyx_http_response_error(r, 404, "Not Found")

\* lines 548-551: no route matched
hc_default404 ==
    /\ pc = "default404"
    /\ resp' = Default404(resp)
    /\ events' = Append(events, Ev("default404"))
    /\ pc' = "send"
    /\ UNCHANGED <<client_socket, bytes_read, buffer, req, mw_i, matched, wire,
                   access_lines, live, ub>>
    /\ UNCHANGED srvVars

\* lines 553-554: send_response; its result is ignored
hc_send(env) ==
    /\ pc = "send"
    /\ \E hdrOut \in env.send, bodyOut \in env.send, o \in UbOutcomes :
          /\ ub' = (ub \/ SendFault(resp) # "none")
          /\ IF SendFault(resp) # "none" /\ o = "crash"
             THEN /\ pc' = "crashed"
                  /\ UNCHANGED <<wire, events>>
             ELSE /\ wire' = wire \o SendCalls(resp, hdrOut, bodyOut)
                  /\ events' = Append(events, Ev("send"))
                  /\ pc' = "log"
    /\ UNCHANGED <<client_socket, bytes_read, buffer, req, resp, mw_i, matched,
                   access_lines, live>>
    /\ UNCHANGED srvVars

\* lines 556-557
hc_log ==
    /\ pc = "log"
    /\ access_lines' = access_lines \o log_access(access_log, req, resp)
    /\ events' = Append(events, Ev("log"))
    /\ pc' = "cleanup"
    /\ UNCHANGED <<client_socket, bytes_read, buffer, req, resp, mw_i, matched, wire,
                   live, ub>>
    /\ UNCHANGED srvVars

\* lines 559-562
hc_cleanup ==
    /\ pc = "cleanup"
    /\ live' = live \ (Destroyed("req", req) \cup Destroyed("resp", resp))
    /\ client_socket' = "closed"
    /\ events' = events \o <<Ev("release"), Ev("close")>>
    /\ pc' = "closed"
    /\ UNCHANGED <<bytes_read, buffer, req, resp, mw_i, matched, wire, access_lines, ub>>
    /\ UNCHANGED srvVars

handle_client(env) ==
    \/ hc_read
    \/ hc_create(env)
    \/ hc_parse(env)
    \/ hc_middleware
    \/ hc_route
    \/ hc_handler
    \/ hc_default404
    \/ hc_send(env)
    \/ hc_log
    \/ hc_cleanup

(***************************************************************************)
(* Specifications.                                                         *)
(***************************************************************************)
\* the server with a few registrations made before start, serving connections
Next ==
    \/ \E a \in RouteArgs : Len(routes) < MaxRegRoutes /\ RegisterRoute(a)
    \/ \E a \in MiddlewareArgs : Len(middlewares) < MaxRegMiddleware /\ RegisterMiddleware(a)
    \/ StartServer
    \/ AcceptConnection
    \/ handle_client(EnvNominal)

Spec == Init /\ [][Next]_vars

\* the server of test_httpd.c's shape, started, in an environment where any
\* allocation may fail and any send may be cut short
EnvRoutes ==
    nyx_httpd_route(
        nyx_httpd_route(<<>>,
            [server |-> TRUE, method |-> "GET", path |-> "/a",
             handler |-> "handle_root", user_data |-> 1]).routes,
        [server |-> TRUE, method |-> "GET", path |-> "/a",
         handler |-> "handle_status", user_data |-> 2]).routes

EnvMiddlewares ==
    nyx_httpd_middleware(
        nyx_httpd_middleware(<<>>,
            [server |-> TRUE, handler |-> "logging_middleware", user_data |-> 1]).middlewares,
        [server |-> TRUE, handler |-> "tag_middleware", user_data |-> 2]).middlewares

InitEnv ==
    /\ srv = "running"
    /\ routes = EnvRoutes
    /\ middlewares = EnvMiddlewares
    /\ access_log \in BOOLEAN
    /\ call = NoCall
    /\ route_args = << [server |-> TRUE, method |-> "GET", path |-> "/a",
                        handler |-> "handle_root", user_data |-> 1],
                       [server |-> TRUE, method |-> "GET", path |-> "/a",
                        handler |-> "handle_status", user_data |-> 2] >>
    /\ pc = "accept"
    /\ FreshConn
    /\ error_log \in BOOLEAN
    /\ error_lines = <<>>
    /\ running = TRUE
    /\ listen_socket = "fd"
    /\ listen_fd = "open"
    /\ spc = "loop"
    /\ stop_pc = "none"

NextEnv ==
    \/ AcceptConnection
    \/ handle_client(EnvFaulty)

SpecEnv == InitEnv /\ [][NextEnv]_vars

\* nyx_httpd_route called with each element of args in turn, from the table rts
RECURSIVE RegisterAll(_, _)
RegisterAll(rts, args) ==
    IF args = <<>> THEN rts
    ELSE RegisterAll(nyx_httpd_route(rts, Head(args)).routes, Tail(args))

\* a server whose first route was registered with a method of 17 bytes and whose
\* next two routes share a method of 15 bytes and a path
LongRouteArgs ==
    << [server |-> TRUE, method |-> Rep("M", 17), path |-> "/a",
        handler |-> "handle_headers", user_data |-> 3],
       [server |-> TRUE, method |-> Rep("M", 15), path |-> "/a",
        handler |-> "handle_root", user_data |-> 1],
       [server |-> TRUE, method |-> Rep("M", 15), path |-> "/a",
        handler |-> "handle_status", user_data |-> 2] >>

InitLong ==
    /\ srv = "running"
    /\ routes = RegisterAll(<<>>, LongRouteArgs)
    /\ middlewares = EnvMiddlewares
    /\ access_log \in BOOLEAN
    /\ call = NoCall
    /\ route_args = LongRouteArgs
    /\ pc = "accept"
    /\ FreshConn
    /\ error_log \in BOOLEAN
    /\ error_lines = <<>>
    /\ running = TRUE
    /\ listen_socket = "fd"
    /\ listen_fd = "open"
    /\ spc = "loop"
    /\ stop_pc = "none"

NextLong ==
    \/ AcceptConnection
    \/ handle_client(EnvNominal)

SpecLong == InitLong /\ [][NextLong]_vars

(***************************************************************************)
(* nyx_httpd_start and nyx_httpd_stop step by step, each in its own thread. *)
(***************************************************************************)
\* the registries, the access log and the record of the registration calls
tblVars == <<routes, middlewares, access_log, call, route_args>>

\* undefined behaviour has not ended the process
Alive == pc # "crashed"

\* the descriptor server->listen_socket names is an open socket
ListenUsable == listen_socket = "fd" /\ listen_fd = "open"

\* close_socket(server->listen_socket): the descriptor afterwards.  Closing
\* through a field that still names a descriptor closed before closes it again.
close_socket(field, fd) ==
    IF field # "fd" THEN fd
    ELSE IF fd = "open" THEN "closed"
    ELSE "closed_again"

\* line 565: nyx_httpd_start is called
st_enter ==
    /\ spc = "none"
    /\ srv = "created"
    /\ spc' = "socket"
    /\ UNCHANGED <<srv, tblVars, connVars, error_log, error_lines, running,
                   listen_socket, listen_fd, stop_pc>>

\* lines 577-581: socket
st_socket ==
    /\ spc = "socket" /\ Alive
    /\ \E ok \in BOOLEAN :
          IF ok
          THEN /\ listen_socket' = "fd"
               /\ listen_fd' = "open"
               /\ spc' = "bind"
               /\ UNCHANGED <<srv, error_lines>>
          ELSE /\ listen_socket' = "INVALID"
               /\ error_lines' = log_error(error_log, error_lines, StartError("socket"))
               /\ spc' = "returned_fail"
               /\ srv' = "failed"
               /\ UNCHANGED listen_fd
    /\ UNCHANGED <<tblVars, connVars, error_log, running, stop_pc>>

\* lines 594-599 (what = "bind") and 602-606 (what = "listen"): the call fails
\* when server->listen_socket no longer names an open socket
st_bind_or_listen(what, next) ==
    /\ spc = what /\ Alive
    /\ \E ok \in (IF ListenUsable THEN BOOLEAN ELSE {FALSE}) :
          IF ok
          THEN /\ spc' = next
               /\ UNCHANGED <<srv, error_lines, listen_fd>>
          ELSE /\ error_lines' = log_error(error_log, error_lines, StartError(what))
               /\ listen_fd' = close_socket(listen_socket, listen_fd)
               /\ spc' = "returned_fail"
               /\ srv' = "failed"
    /\ UNCHANGED <<tblVars, connVars, error_log, running, listen_socket, stop_pc>>

st_bind == st_bind_or_listen("bind", "listen")

st_listen == st_bind_or_listen("listen", "run")

\* lines 608-611: server->running = 1
st_run ==
    /\ spc = "run" /\ Alive
    /\ running' = TRUE
    /\ srv' = "running"
    /\ spc' = "loop"
    /\ UNCHANGED <<tblVars, connVars, error_log, error_lines, listen_socket, listen_fd,
                   stop_pc>>

\* line 614: the test of the accept loop; line 637 when it fails
st_loop ==
    /\ spc = "loop" /\ Alive
    /\ spc' = IF running THEN "accept" ELSE "returned_ok"
    /\ UNCHANGED <<srv, tblVars, connVars, error_log, error_lines, running,
                   listen_socket, listen_fd, stop_pc>>

\* a failed accept taken for the end of the server
AcceptFailed_fatal ==
    /\ error_lines' = log_error(error_log, error_lines, StartError("accept"))
    /\ running' = FALSE
    /\ spc' = "returned_fail"
    /\ UNCHANGED <<srv, tblVars, connVars, error_log, listen_socket, listen_fd, stop_pc>>

\* lines 622-627: accept returned an invalid socket
AcceptFailed ==
    /\ error_lines' = IF running
                      THEN log_error(error_log, error_lines, StartError("accept"))
                      ELSE error_lines
    /\ spc' = "loop"
    /\ UNCHANGED <<srv, tblVars, connVars, error_log, running, listen_socket,
                   listen_fd, stop_pc>>

\* line 618: accept is called; it blocks on an open listening socket and
\* fails at once on anything else
st_accept ==
    /\ spc = "accept" /\ Alive
    /\ IF ListenUsable
       THEN /\ spc' = "in_accept"
            /\ UNCHANGED <<srv, tblVars, connVars, error_log, error_lines, running,
                           listen_socket, listen_fd, stop_pc>>
       ELSE AcceptFailed

\* lines 618-634: the blocked accept returns, with a client (a call that is
\* already blocked keeps the socket it waits on, closed or not), or with an
\* error (the socket was closed under it, or the call failed for a reason of
\* its own)
st_accept_return ==
    /\ spc = "in_accept" /\ Alive
    /\ \/ /\ spc' = "handle"
          /\ pc' = "read"
          /\ client_socket' = "open"
          /\ bytes_read' = 0
          /\ buffer' = ""
          /\ req' = NoObject
          /\ resp' = NoObject
          /\ mw_i' = 0
          /\ matched' = 0
          /\ events' = <<>>
          /\ wire' = <<>>
          /\ access_lines' = <<>>
          /\ live' = {}
          /\ ub' = FALSE
          /\ UNCHANGED <<srv, tblVars, error_log, error_lines, running, listen_socket,
                         listen_fd, stop_pc>>
       \/ AcceptFailed

\* lines 634-635: handle_client returned
st_handled ==
    /\ spc = "handle"
    /\ pc = "closed"
    /\ spc' = "loop"
    /\ UNCHANGED <<srv, tblVars, connVars, error_log, error_lines, running,
                   listen_socket, listen_fd, stop_pc>>

\* line 640: another thread calls nyx_httpd_stop, at any moment after
\* nyx_httpd_start was entered
stop_enter ==
    /\ stop_pc = "none"
    /\ spc # "none"
    /\ Alive
    /\ stop_pc' = "clear"
    /\ UNCHANGED <<srv, tblVars, connVars, error_log, error_lines, running,
                   listen_socket, listen_fd, spc>>

\* line 643: server->running = 0
stop_clear ==
    /\ stop_pc = "clear" /\ Alive
    /\ running' = FALSE
    /\ stop_pc' = "close"
    /\ UNCHANGED <<srv, tblVars, connVars, error_log, error_lines, listen_socket,
                   listen_fd, spc>>

\* lines 645-654: the listening socket is closed if the field names one
stop_close ==
    /\ stop_pc = "close" /\ Alive
    /\ listen_fd' = close_socket(listen_socket, listen_fd)
    /\ listen_socket' = "INVALID"
    /\ stop_pc' = "done"
    /\ UNCHANGED <<srv, tblVars, connVars, error_log, error_lines, running, spc>>

\* the steps of the thread in nyx_httpd_start that wait for no peer
StartThread ==
    \/ st_socket
    \/ st_bind
    \/ st_listen
    \/ st_run
    \/ st_loop
    \/ st_accept
    \/ st_handled
    \/ hc_create(EnvNominal)
    \/ hc_parse(EnvNominal)
    \/ hc_middleware
    \/ hc_route
    \/ hc_handler
    \/ hc_default404
    \/ hc_send(EnvNominal)
    \/ hc_log
    \/ hc_cleanup

\* the steps of the thread in nyx_httpd_stop
StopThread == stop_clear \/ stop_close

\* a server created and registered as EnvRoutes and EnvMiddlewares say
InitLife ==
    /\ srv = "created"
    /\ routes = EnvRoutes
    /\ middlewares = EnvMiddlewares
    /\ access_log \in BOOLEAN
    /\ call = NoCall
    /\ route_args = << [server |-> TRUE, method |-> "GET", path |-> "/a",
                        handler |-> "handle_root", user_data |-> 1],
                       [server |-> TRUE, method |-> "GET", path |-> "/a",
                        handler |-> "handle_status", user_data |-> 2] >>
    /\ pc = "idle"
    /\ FreshConn
    /\ error_log \in BOOLEAN
    /\ error_lines = <<>>
    /\ running = FALSE
    /\ listen_socket = "INVALID"
    /\ listen_fd = "none"
    /\ spc = "none"
    /\ stop_pc = "none"

NextLife ==
    \/ st_enter
    \/ StartThread
    \/ st_accept_return
    \/ hc_read
    \/ stop_enter
    \/ StopThread

\* a thread that can take a step takes one; accept and recv may block for ever
SpecLife == InitLife /\ [][NextLife]_vars /\ WF_vars(StartThread) /\ WF_vars(StopThread)

(***************************************************************************)
(* The header containers: header lines parsed into a request and looked up *)
(* by a handler (pc = "parse", then "handler_get"), and headers set on a   *)
(* response by a handler (pc = "handler_set").                             *)
(***************************************************************************)
Entry(n, v) == [name |-> n, value |-> v]

\* header names in two spellings, and a name no other resembles
HdrNames == {"Host", "hOST", "X-A"}

HdrValues == {"1", "2"}

VariedEntries == {Entry(n, v) : n \in HdrNames, v \in HdrValues}

\* the header that fills a container up
Filler == Entry("F", "0")

\* the names a handler looks up
LookupNames == HdrNames \cup {"HOST", "x-a", "Hos"}

\* the classes of names that differ only in letter case
CaseVariants == {{"Host", "hOST", "HOST"}, {"X-A", "x-a"}}

SameLetters(a, b) == a = b \/ \E S \in CaseVariants : a \in S /\ b \in S

SeqsUpTo(S, k) == UNION {[1 .. n -> S] : n \in 0 .. k}

Fill(n) == [i \in 1 .. n |-> Filler]

\* numbers of filler lines: none, and what takes a container to its capacity
\* and beyond
FillCounts == {0, MAX_HEADERS - MaxVaried, MAX_HEADERS - 1, MAX_HEADERS, MAX_HEADERS + 1}

\* the header lines of a request: a few varied ones, then fillers
HdrLists == {v \o Fill(n) : v \in SeqsUpTo(VariedEntries, MaxVaried), n \in FillCounts}

\* the header lines es as the client writes them
\* (lines i to j, by halves)
RECURSIVE RenderLines(_, _, _)
RenderLines(es, i, j) ==
    IF i > j THEN ""
    ELSE IF i = j THEN es[i].name \o ": " \o es[i].value \o CRLF
    ELSE LET m == (i + j) \div 2
         IN  RenderLines(es, i, m) \o RenderLines(es, m + 1, j)

HdrBuffer(es) == "GET /a HTTP/1.1" \o CRLF \o RenderLines(es, 1, Len(es)) \o CRLF

\* a handler sets the filler header this many times in a row
FillBlock == (MAX_HEADERS \div 2) - 1

\* what the header actions leave alone
hdrRest == <<srv, routes, middlewares, access_log, route_args, lifeVars, client_socket,
             mw_i, matched, events, wire, access_lines, live, ub>>

\* lines 468-529: a request with the header lines es is received and parsed
hd_parse ==
    /\ pc = "parse"
    /\ \E es \in HdrLists :
          /\ buffer' = HdrBuffer(es)
          /\ bytes_read' = Len(buffer')
          /\ req' = ParseRequest(buffer', req, {}).req
          /\ call' = [op |-> "parse", lines |-> es]
    /\ pc' = "handler_get"
    /\ UNCHANGED <<resp, hdrRest>>

\* a handler calls nyx_http_request_get_header
hd_get ==
    /\ pc = "handler_get"
    /\ \E m \in LookupNames :
          call' = [op |-> "get_header", name |-> m,
                   ret |-> nyx_http_request_get_header(req, m)]
    /\ UNCHANGED <<req, resp, buffer, bytes_read, pc, hdrRest>>

\* a handler calls nyx_http_response_set_header, n times in a row
hd_set ==
    /\ pc = "handler_set"
    /\ \E e \in VariedEntries \cup {Filler}, n \in {1, FillBlock} :
          /\ \/ e = Filler /\ n = FillBlock
             \/ /\ e # Filler
                /\ n = 1
                /\ \/ Len(resp.headers.headers) < MaxVaried
                   \/ Len(resp.headers.headers) >= MAX_HEADERS
          /\ resp' = SetHeaders(resp, n, e.name, e.value)
          /\ call' = [op |-> "set_header", name |-> e.name, value |-> e.value, n |-> n]
    /\ UNCHANGED <<req, buffer, bytes_read, pc, hdrRest>>

\* a connection after create_request and create_response, about to parse or
\* with a request without headers in the hands of a handler
InitHdr ==
    /\ srv = "running"
    /\ routes = <<>>
    /\ middlewares = <<>>
    /\ access_log = FALSE
    /\ call = NoCall
    /\ route_args = <<>>
    /\ pc \in {"parse", "handler_set"}
    /\ client_socket = "open"
    /\ bytes_read = 0
    /\ buffer = ""
    /\ req = [create_request("ok") EXCEPT !.remote_addr = ClientAddr]
    /\ resp = create_response("ok")
    /\ mw_i = 0
    /\ matched = 0
    /\ events = <<>>
    /\ wire = <<>>
    /\ access_lines = <<>>
    /\ live = Blocks("req", "ok") \cup Blocks("resp", "ok")
    /\ ub = FALSE
    /\ error_log = FALSE
    /\ error_lines = <<>>
    /\ running = TRUE
    /\ listen_socket = "fd"
    /\ listen_fd = "open"
    /\ spc = "handle"
    /\ stop_pc = "none"

NextHdr == hd_parse \/ hd_get \/ hd_set

SpecHdr == InitHdr /\ [][NextHdr]_vars

(***************************************************************************)
(* Parsing alone: requests whose fields are as long as their arrays allow  *)
(* and one byte longer.                                                    *)
(***************************************************************************)
\* the lengths a field stored in an array of size bytes is tried with
Around(size) == {size - 1, size}

\* no header line
NoHeader == Entry(NULL, NULL)

\* the parts of a request: request-line fields, and one header line or none
ParseParts ==
    { [method |-> Rep("M", m), path |-> "/" \o Rep("p", pl - 1), query |-> q,
       protocol |-> Rep("H", pr), header |-> h] :
        m \in Around(METHOD_SIZE), pl \in Around(PATH_SIZE),
        q \in {NULL} \cup {Rep("q", n) : n \in Around(QUERY_SIZE)},
        pr \in Around(PROTOCOL_SIZE),
        h \in {NoHeader} \cup {Entry(Rep("n", n), Rep("v", v)) :
                               n \in Around(HEADER_NAME_SIZE),
                               v \in Around(HEADER_VALUE_SIZE)} }

\* the request with the parts pt as the client writes it
PartsBuffer(pt) ==
    pt.method \o " " \o pt.path \o (IF pt.query = NULL THEN "" ELSE "?" \o pt.query)
    \o " " \o pt.protocol \o CRLF
    \o (IF pt.header = NoHeader THEN "" ELSE pt.header.name \o ": " \o pt.header.value \o CRLF)
    \o CRLF

\* lines 491-529 on the request received
ps_parse ==
    /\ pc = "parse"
    /\ req' = ParseRequest(buffer, req, {}).req
    /\ call' = [call EXCEPT !.op = "parse"]
    /\ pc' = "parsed"
    /\ UNCHANGED <<resp, buffer, bytes_read, hdrRest>>

\* a connection after recv, create_request and create_response
InitParse ==
    /\ srv = "running"
    /\ routes = <<>>
    /\ middlewares = <<>>
    /\ access_log = FALSE
    /\ \E pt \in ParseParts :
          /\ call = [op |-> "recv", parts |-> pt]
          /\ buffer = PartsBuffer(pt)
    /\ bytes_read = Len(buffer)
    /\ route_args = <<>>
    /\ pc = "parse"
    /\ client_socket = "open"
    /\ req = [create_request("ok") EXCEPT !.remote_addr = ClientAddr]
    /\ resp = create_response("ok")
    /\ mw_i = 0
    /\ matched = 0
    /\ events = <<>>
    /\ wire = <<>>
    /\ access_lines = <<>>
    /\ live = Blocks("req", "ok") \cup Blocks("resp", "ok")
    /\ ub = FALSE
    /\ error_log = FALSE
    /\ error_lines = <<>>
    /\ running = TRUE
    /\ listen_socket = "fd"
    /\ listen_fd = "open"
    /\ spc = "handle"
    /\ stop_pc = "none"

NextParse == ps_parse

SpecParse == InitParse /\ [][NextParse]_vars

(***************************************************************************)
(* Static files: a handler calls nyx_http_response_file once.              *)
(***************************************************************************)
FilePaths ==
    {"index.html", "a.htm", "s.css", "app.js", "d.json", "i.png", "p.jpg", "p.jpeg",
     "README", "a.txt", "a.HTML", "v1.2/readme", "x.html.bak", "a.tar.css", "css",
     "d.css/file"}

\* what the path names: nothing that can be opened, or a file that is empty
\* or not, with or without memory for its content
FileStates ==
    {[open |-> FALSE, content |-> "", malloc |-> TRUE]}
    \cup {[open |-> TRUE, content |-> c, malloc |-> m] : c \in {"", "hello"}, m \in BOOLEAN}

\* the response in the hands of the handler: new, or with a full container
HandlerResponses ==
    {create_response("ok"), SetHeaders(create_response("ok"), MAX_HEADERS, "F", "0")}

fl_file ==
    /\ pc = "handler"
    /\ \E path \in FilePaths, fs \in FileStates :
          LET f == nyx_http_response_file(resp, path, fs)
          IN  /\ resp' = f.resp
              /\ live' = IF f.content THEN live \cup {"resp.body"} ELSE live
              /\ call' = [op |-> "nyx_http_response_file", path |-> path, fs |-> fs,
                          ret |-> f.ret, before |-> resp]
    /\ pc' = "send"
    /\ UNCHANGED <<srv, routes, middlewares, access_log, route_args, lifeVars,
                   client_socket, bytes_read, buffer, req, mw_i, matched, events, wire,
                   access_lines, ub>>

\* a connection whose request was routed to a handler that serves files
InitFile ==
    /\ srv = "running"
    /\ routes = <<>>
    /\ middlewares = <<>>
    /\ access_log = FALSE
    /\ call = NoCall
    /\ route_args = <<>>
    /\ pc = "handler"
    /\ client_socket = "open"
    /\ buffer \in {"GET /a HTTP/1.1\r\n\r\n", "GET /b?q=1 HTTP/1.1\r\n\r\n"}
    /\ bytes_read = Len(buffer)
    /\ req = ParseRequest(buffer, [create_request("ok") EXCEPT !.remote_addr = ClientAddr],
                          {}).req
    /\ resp \in HandlerResponses
    /\ mw_i = 0
    /\ matched = 1
    /\ events = <<>>
    /\ wire = <<>>
    /\ access_lines = <<>>
    /\ live = Blocks("req", "ok") \cup Blocks("resp", "ok") \cup DupBlocks(req)
    /\ ub = FALSE
    /\ error_log = FALSE
    /\ error_lines = <<>>
    /\ running = TRUE
    /\ listen_socket = "fd"
    /\ listen_fd = "open"
    /\ spc = "handle"
    /\ stop_pc = "none"

NextFile == fl_file

SpecFile == InitFile /\ [][NextFile]_vars

(***************************************************************************)
(* Requests with and without a query string on a server with two paths.   *)
(***************************************************************************)
QueryRouteArgs ==
    << [server |-> TRUE, method |-> "GET", path |-> "/a",
        handler |-> "handle_root", user_data |-> 1],
       [server |-> TRUE, method |-> "GET", path |-> "/b",
        handler |-> "handle_status", user_data |-> 2] >>

\* request targets: a path, a query or none (NULL), and the protocol token
Targets ==
    { [path |-> pa, query |-> q, protocol |-> pr] :
        pa \in {"/a", "/b", "/c"},
        q \in {NULL, "", "q=1", "x?y", "/b", Rep("q", QUERY_SIZE - 1), Rep("q", QUERY_SIZE)},
        pr \in {"HTTP/1.1", "HTTP/1.1?/b"} }

\* the request for the target t as the client writes it
TargetBuffer(t) ==
    "GET " \o t.path \o (IF t.query = NULL THEN "" ELSE "?" \o t.query)
    \o " " \o t.protocol \o CRLF \o CRLF

\* lines 467-475: recv stores a request for one of the targets
q_read ==
    /\ pc = "read"
    /\ \E t \in Targets :
          /\ buffer' = TargetBuffer(t)
          /\ bytes_read' = Len(buffer')
          /\ call' = [op |-> "recv", target |-> t]
    /\ pc' = "create"
    /\ UNCHANGED <<srv, routes, middlewares, access_log, route_args, lifeVars>>
    /\ UNCHANGED <<client_socket, req, resp, mw_i, matched, events, wire, access_lines,
                   live, ub>>

InitQuery ==
    /\ srv = "running"
    /\ routes = RegisterAll(<<>>, QueryRouteArgs)
    /\ middlewares = EnvMiddlewares
    /\ access_log = TRUE
    /\ call = NoCall
    /\ route_args = QueryRouteArgs
    /\ pc = "accept"
    /\ FreshConn
    /\ error_log = TRUE
    /\ error_lines = <<>>
    /\ running = TRUE
    /\ listen_socket = "fd"
    /\ listen_fd = "open"
    /\ spc = "loop"
    /\ stop_pc = "none"

NextQuery ==
    \/ AcceptConnection
    \/ q_read
    \/ hc_create(EnvNominal)
    \/ hc_parse(EnvNominal)
    \/ hc_middleware
    \/ hc_route
    \/ hc_handler
    \/ hc_default404
    \/ hc_send(EnvNominal)
    \/ hc_log
    \/ hc_cleanup

SpecQuery == InitQuery /\ [][NextQuery]_vars

(***************************************************************************)
(* nyx_httpd_start, nyx_httpd_stop and nyx_httpd_destroy called one after  *)
(* the other on one server, each as a whole.                               *)
(***************************************************************************)
\* nyx_httpd_start: it fails at socket, bind or listen and returns, or enters
\* its loop, which it leaves when nyx_httpd_stop is called
lc_start ==
    /\ srv \in {"created", "failed", "stopped"}
    /\ \E o \in StartOutcomes :
          /\ srv' = IF o = "ok" THEN "running" ELSE "failed"
          /\ spc' = IF o = "ok" THEN "loop" ELSE "returned_fail"
          /\ running' = (o = "ok")
          /\ listen_socket' = IF o = "socket" THEN "INVALID" ELSE "fd"
          /\ listen_fd' = CASE o = "ok" -> "open"
                            [] o = "socket" -> listen_fd
                            [] OTHER -> "closed"
          /\ error_lines' = IF o = "ok" THEN error_lines
                            ELSE log_error(error_log, error_lines, StartError(o))
          /\ call' = [op |-> "nyx_httpd_start", ret |-> IF o = "ok" THEN 0 ELSE -1]
    /\ UNCHANGED <<routes, middlewares, access_log, route_args, error_log, stop_pc,
                   connVars>>

\* nyx_httpd_stop (lines 640-655)
lc_stop ==
    /\ srv # "destroyed"
    /\ running' = FALSE
    /\ listen_fd' = close_socket(listen_socket, listen_fd)
    /\ listen_socket' = "INVALID"
    /\ srv' = IF srv = "running" THEN "stopped" ELSE srv
    /\ spc' = IF spc = "loop" THEN "returned_ok" ELSE spc
    /\ call' = [op |-> "nyx_httpd_stop", ret |-> 0]
    /\ UNCHANGED <<routes, middlewares, access_log, route_args, error_log, error_lines,
                   stop_pc, connVars>>

\* nyx_httpd_destroy (lines 657-666): nyx_httpd_stop, then the logs are closed
\* and the server is freed
lc_destroy ==
    /\ srv # "destroyed"
    /\ running' = FALSE
    /\ listen_fd' = close_socket(listen_socket, listen_fd)
    /\ listen_socket' = "INVALID"
    /\ srv' = "destroyed"
    /\ spc' = IF spc = "loop" THEN "returned_ok" ELSE spc
    /\ access_log' = FALSE
    /\ error_log' = FALSE
    /\ call' = [op |-> "nyx_httpd_destroy", ret |-> 0]
    /\ UNCHANGED <<routes, middlewares, route_args, error_lines, stop_pc, connVars>>

NextSeq == lc_start \/ lc_stop \/ lc_destroy

SpecSeq == Init /\ [][NextSeq]_vars

\* the registration calls alone, up to and beyond the capacity of both registries
NextReg ==
    \/ \E a \in RegRouteArgs : RegisterRoute(a)
    \/ \E a \in RegMiddlewareArgs : RegisterMiddleware(a)

\* nyx_httpd_create with both log sinks opened
InitReg == Init /\ access_log /\ error_log

SpecReg == InitReg /\ [][NextReg]_vars

(***************************************************************************)
(* Properties.                                                             *)
(***************************************************************************)
Kinds(ev) == [i \in 1 .. Len(ev) |-> ev[i].kind]
EventsOf(kind) == SelectSeq(events, LAMBDA e : e.kind = kind)
HasEvent(kind) == \E i \in 1 .. Len(events) : events[i].kind = kind
IsPrefix(a, b) == Len(a) <= Len(b) /\ SubSeq(b, 1, Len(a)) = a
Contains(s, sub) ==
    \E i \in 1 .. Len(s) - Len(sub) + 1 : SubSeq(s, i, i + Len(sub) - 1) = sub

\* the recv of the current connection has returned
AfterRead == pc \notin {"idle", "accept", "read"}
\* create_request and create_response of the current connection have returned
AfterCreate == AfterRead /\ pc # "create" /\ bytes_read > 0

\* the buffer holds a CRLF and parse_request_line accepts what precedes it
RequestLineParses(buf) ==
    /\ strstr_crlf(buf, 1) # 0
    /\ parse_request_line(SubSeq(buf, 1, strstr_crlf(buf, 1) - 1)).ok

\* route rt holds the method and the path of the parsed request
SameAsRequest(rt) == rt.method = req.method /\ rt.path = req.path
RequestParsed == req.alloc /\ req.method # NULL /\ req.path # NULL
\* the i-th successful nyx_httpd_route call was given the request's method and path
RegisteredAsRequest(i) ==
    route_args[i].method = req.method /\ route_args[i].path = req.path

\* C1: a connection whose request line cannot be parsed never crashes or hands an
\* absent method or path to a comparison, runs no route handler, and is closed
\* with the synthesized 404 sent.
C1_UnparsedRequestTolerated ==
    (AfterCreate /\ req.alloc /\ resp.alloc /\ ~RequestLineParses(buffer))
        => /\ pc # "crashed"
           /\ ~ub
           /\ ~HasEvent("handler")
           /\ (pc = "closed" => /\ HasEvent("default404")
                                /\ resp.status_code = 404
                                /\ wire # <<>>)

\* the stages of a connection that dispatches by h ("handler" or "default404")
ExpectedStages(h) ==
    <<"parse">> \o [i \in 1 .. Len(middlewares) |-> "mw"]
    \o <<"match", h, "send", "log", "release", "close">>

\* C2: a connection whose read returned data and whose Request and Response are
\* allocated goes through parse, every middleware, route match, one of handler
\* or 404, send, log, release and close, each once and in this order.
C2_StagesInOrder ==
    (AfterCreate /\ req.alloc /\ resp.alloc)
        => /\ pc # "crashed"
           /\ \E h \in {"handler", "default404"} :
                 /\ IsPrefix(Kinds(events), ExpectedStages(h))
                 /\ (pc = "closed" => Kinds(events) = ExpectedStages(h))

\* the calls the middleware loop has made after n iterations
ExpectedMiddlewareCalls(n) ==
    [i \in 1 .. n |-> [kind |-> "mw", idx |-> i, fn |-> middlewares[i].handler,
                       data |-> middlewares[i].user_data]]

\* C3: once a connection is in the middleware stage, every registered middleware
\* is called exactly once, in registration order, with its own user data, and
\* all of them before the route match, any route handler and the 404 synthesis,
\* whichever of the two the request ends in.
C3_MiddlewareOrder ==
    /\ pc = "middleware" => EventsOf("mw") = ExpectedMiddlewareCalls(mw_i)
    /\ (\/ pc \in {"route", "handler", "default404", "send", "log", "cleanup"}
        \/ HasEvent("match") \/ HasEvent("handler") \/ HasEvent("default404"))
          => EventsOf("mw") = ExpectedMiddlewareCalls(Len(middlewares))
    /\ \A i, j \in 1 .. Len(events) :
          (i < j /\ events[i].kind \in {"match", "handler", "default404"})
              => events[j].kind # "mw"
    /\ HasEvent("handler") => ~HasEvent("default404")

\* two different middleware ran in order before a request that ended in 404,
\* and one of them changed the Response
C3_Witness ==
    /\ pc = "closed"
    /\ Len(middlewares) = 2
    /\ middlewares[1].handler = "tag_middleware"
    /\ middlewares[2].handler = "logging_middleware"
    /\ Len(EventsOf("mw")) = 2
    /\ HasEvent("default404")
    /\ \E i \in 1 .. Len(resp.headers.headers) : resp.headers.headers[i].name = "X-Tag"

\* C4: at most one route handler runs per connection, and when routes were
\* registered with the request's method and path the one that runs is the
\* earliest-registered of them, called with its own user data.
C4_FirstRouteWins ==
    /\ Len(EventsOf("handler")) <= 1
    /\ \A k \in 1 .. Len(events) :
          (events[k].kind = "handler" /\ RequestParsed)
              => LET S == {i \in 1 .. Len(route_args) : RegisteredAsRequest(i)}
                 IN  S # {} => /\ events[k].idx = Min(S)
                               /\ events[k].fn = route_args[Min(S)].handler
                               /\ events[k].data = route_args[Min(S)].user_data

\* C5: a route handler runs only if the method and path passed to the
\* nyx_httpd_route call that registered it are equal to the request's.
C5_OnlyExactRoutesSelected ==
    \A k \in 1 .. Len(events) :
        (events[k].kind = "handler" /\ RequestParsed)
            => /\ route_args[events[k].idx].method = req.method
               /\ route_args[events[k].idx].path = req.path

NotFoundPage ==
    "<html><head><title>404 Error</title></head><body><h1>404 Error</h1>"
    \o "<p>Not Found</p></body></html>"

\* handle_client has either run a route handler or synthesized the 404
Dispatched == HasEvent("handler") \/ HasEvent("default404")

\* C6: a parsed request whose method and path no route was registered with
\* gets status 404 and the HTML error page containing "Not Found", in the
\* Response and in what is sent; and the 404 is synthesized only when no route
\* matched.
C6_UnmatchedGets404 ==
    /\ (Dispatched /\ RequestParsed
        /\ \A i \in 1 .. Len(route_args) : ~RegisteredAsRequest(i))
          => /\ resp.status_code = 404
             /\ resp.body = NotFoundPage
             /\ Contains(resp.body, "Not Found")
             /\ resp.body_length = Len(NotFoundPage)
             /\ wire # <<>> =>
                   /\ IsPrefix("HTTP/1.1 404 ", wire[1].bytes)
                   /\ Len(wire) = 2
                   /\ wire[2].bytes = NotFoundPage
    /\ HasEvent("default404")
          => /\ ~HasEvent("handler")
             /\ matched = 0
             /\ RequestParsed => \A i \in 1 .. Len(routes) : ~SameAsRequest(routes[i])

\* the number in the Content-Length line of a header block, -1 when the block
\* holds no complete Content-Length line
WireContentLength(bytes) ==
    LET key == "\r\nContent-Length: "
        S == {i \in 1 .. Len(bytes) - Len(key) + 1 : SubSeq(bytes, i, i + Len(key) - 1) = key}
    IN  IF S = {} THEN -1
        ELSE LET start == Max(S) + Len(key)
                 stop == strstr_crlf(bytes, start)
             IN  IF stop = 0 \/ stop = start THEN -1
                 ELSE Atoi(SubSeq(bytes, start, stop - 1), 0)

\* the body bytes handed to the socket after the header block
WireBodyBytes == IF Len(wire) >= 2 THEN Len(wire[2].bytes) ELSE 0

\* C7: for every response sent to a valid request, the header block handed to
\* the socket lies in the buffer and its Content-Length line gives the number of
\* body bytes that follow it.
C7_ContentLengthIsBodyLength ==
    (/\ wire # <<>>
     /\ \A i \in 1 .. Len(wire) : wire[i].out = "full"
     /\ RequestLineParses(buffer) /\ RequestParsed)
        => /\ wire[1].n = Len(wire[1].bytes)
           /\ WireContentLength(wire[1].bytes) = WireBodyBytes

ValidRouteArgs(a) == a.server /\ a.method # NULL /\ a.path # NULL /\ a.handler # NULL
ValidMiddlewareArgs(a) == a.server /\ a.handler # NULL

\* what one registration call, described by call', did to the registries
RegistrationStep ==
    LET c == call'
        n == Len(routes)
        m == Len(middlewares)
    IN  /\ c.op \in {"nyx_httpd_route", "nyx_httpd_middleware"}
        /\ c.ret \in {0, -1}
        /\ c.op = "nyx_httpd_route" =>
              /\ middlewares' = middlewares
              /\ (c.ret = 0) <=> (ValidRouteArgs(c.args) /\ n < MAX_ROUTES)
              /\ c.ret = -1 => routes' = routes
              /\ c.ret = 0 =>
                    /\ Len(routes') = n + 1
                    /\ SubSeq(routes', 1, n) = routes
                    /\ routes'[n + 1].handler = c.args.handler
                    /\ routes'[n + 1].user_data = c.args.user_data
                    /\ IsPrefix(routes'[n + 1].method, c.args.method)
                    /\ IsPrefix(routes'[n + 1].path, c.args.path)
        /\ c.op = "nyx_httpd_middleware" =>
              /\ routes' = routes
              /\ (c.ret = 0) <=> (ValidMiddlewareArgs(c.args) /\ m < MAX_MIDDLEWARE)
              /\ c.ret = -1 => middlewares' = middlewares
              /\ c.ret = 0 =>
                    middlewares' = Append(middlewares,
                                          [handler |-> c.args.handler,
                                           user_data |-> c.args.user_data])

\* C8: the registries never exceed 256 routes and 32 middleware entries; a
\* registration at capacity or with a missing argument returns -1 and changes
\* neither registry, and any other registration returns 0 and appends exactly
\* one entry at the end.
C8_BoundedRegistration ==
    /\ [](Len(routes) <= MAX_ROUTES /\ Len(middlewares) <= MAX_MIDDLEWARE)
    /\ [][RegistrationStep]_vars

\* a valid registration was refused with both registries full
C8_Witness ==
    /\ Len(routes) = MAX_ROUTES
    /\ Len(middlewares) = MAX_MIDDLEWARE
    /\ call.op = "nyx_httpd_route"
    /\ ValidRouteArgs(call.args)
    /\ call.ret = -1

\* C9: a recv that returns zero or a negative result closes the connection at
\* once: no Request or Response is created, no middleware or handler runs,
\* nothing is sent or logged, and the client socket is closed.
C9_ReadFailureDrops ==
    (AfterRead /\ bytes_read <= 0)
        => /\ pc = "closed"
           /\ events = <<Ev("close")>>
           /\ wire = <<>>
           /\ access_lines = <<>>
           /\ client_socket = "closed"
           /\ req = NoObject /\ resp = NoObject
           /\ live = {}

\* a recv failed on a server that has a route, a middleware and an access log
C9_Witness ==
    /\ pc = "closed"
    /\ bytes_read = -1
    /\ client_socket = "closed"
    /\ Len(routes) > 0 /\ Len(middlewares) > 0
    /\ access_log

\* an allocation of create_request or create_response failed
AnyAllocFailed ==
    \/ ~req.alloc
    \/ ~resp.alloc
    \/ ~req.headers.alloc
    \/ ~resp.headers.alloc

\* C10: when the Request, the Response or either header container cannot be
\* allocated the connection is dropped: nothing is sent, no middleware or
\* handler runs, what was allocated is released and the socket is closed.
C10_AllocFailureDrops ==
    (AfterCreate /\ AnyAllocFailed)
        => /\ pc = "closed"
           /\ wire = <<>>
           /\ ~HasEvent("mw") /\ ~HasEvent("handler") /\ ~HasEvent("default404")
           /\ live = {}
           /\ client_socket = "closed"

\* C11: when a connection is closed, whatever path led there, every heap block
\* acquired for it (the Request, the Response, their header containers and the
\* strings parsed into the Request) has been released and the client socket is
\* closed.
C11_ResourcesReleasedAtClose ==
    pc = "closed" => /\ live = {}
                     /\ client_socket = "closed"

\* nyx_httpd_start has returned
StartReturned == spc \in {"returned_ok", "returned_fail"}

\* C12: once nyx_httpd_stop has been called from another thread, at whatever
\* point of nyx_httpd_start, the accept loop ends and nyx_httpd_start returns;
\* and once nyx_httpd_stop has returned the running flag is clear and the
\* listening socket is closed.
C12_StopEndsStart ==
    /\ [](stop_pc = "done" => (~running /\ listen_fd # "open"))
    /\ (stop_pc # "none") ~> (StartReturned \/ ~Alive)

\* what holds while socket, bind and listen are made and after one of them
\* failed: the running flag was never set and no connection was accepted
NeverServed ==
    /\ ~running
    /\ pc = "idle"
    /\ client_socket = "none"
    /\ events = <<>>

\* C13 as stated: when socket, bind or listen fails nyx_httpd_start returns
\* failure with exactly one line in the error log, the running flag never set
\* and no connection accepted or handled.
C13_StartFailureLogsOneLine ==
    /\ spc \in {"socket", "bind", "listen", "returned_fail"} => NeverServed
    /\ spc = "returned_fail" => /\ srv = "failed"
                                /\ Len(error_lines) = 1

\* C13 amended: as above, with one error-log line when the error log was
\* opened and none when it was not.
C13_StartFailureReported ==
    /\ spc \in {"socket", "bind", "listen", "returned_fail"} => NeverServed
    /\ spc = "returned_fail"
          => /\ srv = "failed"
             /\ \E what \in {"socket", "bind", "listen"} :
                   error_lines = IF error_log THEN <<StartError(what)>> ELSE <<>>

\* listen failed on a server whose error log is open: one line, socket closed
C13_Witness ==
    /\ spc = "returned_fail"
    /\ error_log
    /\ error_lines = <<StartError("listen")>>
    /\ listen_fd = "closed"
    /\ ~running

\* C14: a response is never written in part: every write to the socket takes
\* the whole header block or the whole body or nothing; when the write of the
\* header block is not complete the body is not written; and when either
\* write is not complete the exchange is not put in the access log.
C14_ResponseWrittenWhole ==
    wire # <<>> =>
        /\ \A i \in 1..Len(wire) : wire[i].out # "short"
        /\ wire[1].out # "full" => Len(wire) = 1
        /\ (\E i \in 1..Len(wire) : wire[i].out # "full") => access_lines = <<>>

\* the headers of the container hs
Stored(hs) == hs.headers

\* the first entry of es whose name is m in some letter case, 0 when none
Earliest(es, m) ==
    LET S == {i \in 1 .. Len(es) : SameLetters(es[i].name, m)}
    IN  IF S = {} THEN 0 ELSE Min(S)

\* the first k entries of es
FirstN(es, k) == SubSeq(es, 1, Min({k, Len(es)}))

\* C15: header lookup ignores letter case: a lookup by a name that differs
\* only in letter case from the name of a stored entry returns the value stored
\* under that name, and lookups by names that differ only in letter case from
\* each other return the same result.
C15_LookupIgnoresCase ==
    call.op = "get_header" =>
        /\ \A i \in 1 .. Len(Stored(req.headers)) :
              (/\ SameLetters(Stored(req.headers)[i].name, call.name)
               /\ Earliest(Stored(req.headers), call.name) = i)
                  => call.ret = Stored(req.headers)[i].value
        /\ \A m \in LookupNames :
              SameLetters(m, call.name)
                  => nyx_http_request_get_header(req, m) = call.ret

\* a lookup in another letter case than the stored one found the entry
C15_Witness ==
    /\ call.op = "get_header"
    /\ call.name = "HOST"
    /\ Len(Stored(req.headers)) >= 1
    /\ Stored(req.headers)[1] = Entry("hOST", "2")
    /\ call.ret = "2"

\* C16: a header container is never updated in place: the lines parsed into a
\* request are its entries in the order they came, a set on a response with
\* room adds one entry at the end and changes no other, whether or not the name
\* is present, and a lookup returns the value of the earliest entry of that
\* name, or nothing when there is none.
C16_NoUpdateInPlace ==
    /\ [](call.op = "parse" =>
             Stored(req.headers) = FirstN(call.lines, MAX_HEADERS))
    /\ [](call.op = "get_header" =>
             call.ret = IF Earliest(Stored(req.headers), call.name) = 0 THEN NULL
                        ELSE Stored(req.headers)[Earliest(Stored(req.headers),
                                                          call.name)].value)
    /\ [][(call'.op = "set_header" /\ call'.n = 1
             /\ Len(Stored(resp.headers)) < MAX_HEADERS)
            => Stored(resp'.headers)
                 = Append(Stored(resp.headers), Entry(call'.name, call'.value))]_vars

\* the same name was stored twice in two spellings, in a request and in a response
C16_Witness ==
    \/ /\ call.op = "get_header"
       /\ call.name = "Host"
       /\ Len(Stored(req.headers)) >= 2
       /\ Stored(req.headers)[1] = Entry("hOST", "1")
       /\ Stored(req.headers)[2] = Entry("Host", "2")
       /\ call.ret = "1"
    \/ /\ call.op = "set_header"
       /\ Stored(resp.headers) = <<Entry("Host", "1"), Entry("hOST", "2")>>

\* C17: a header container holds from 0 to 64 entries; a set on a response
\* whose container holds 64 leaves it as it is, and of the header lines of a
\* request only the first 64 are stored.
C17_HeaderCapacity ==
    /\ [](/\ Len(Stored(req.headers)) \in 0 .. MAX_HEADERS
          /\ Len(Stored(resp.headers)) \in 0 .. MAX_HEADERS)
    /\ [](call.op = "parse" =>
             Len(Stored(req.headers)) = Min({Len(call.lines), MAX_HEADERS}))
    /\ [][Len(Stored(resp.headers)) = MAX_HEADERS => resp' = resp]_vars

\* a request came with more than 64 header lines, or a set was made on a full
\* response container
C17_Witness ==
    \/ /\ call.op = "parse"
       /\ Len(call.lines) > MAX_HEADERS
       /\ Len(Stored(req.headers)) = MAX_HEADERS
    \/ /\ call.op = "set_header"
       /\ call.n = 1
       /\ call.name = "X-A"
       /\ Len(Stored(resp.headers)) = MAX_HEADERS
       /\ \A i \in 1 .. MAX_HEADERS : Stored(resp.headers)[i].name # "X-A"

\* a request-line field of the parts pt does not fit its array
LongRequestLine(pt) ==
    \/ Len(pt.method) >= METHOD_SIZE
    \/ Len(pt.path) >= PATH_SIZE
    \/ pt.query # NULL /\ Len(pt.query) >= QUERY_SIZE
    \/ Len(pt.protocol) >= PROTOCOL_SIZE

\* the header line of the parts pt does not fit its arrays
LongHeader(pt) ==
    /\ pt.header # NoHeader
    /\ Len(pt.header.name) >= HEADER_NAME_SIZE \/ Len(pt.header.value) >= HEADER_VALUE_SIZE

LineFields(rq) == <<rq.method, rq.path, rq.query_string, rq.protocol>>

\* C18: input too long for a field is rejected and never cut: a request line
\* with a method of 16 bytes or more, a path of 256 or more, a query of 512 or
\* more or a protocol of 16 or more leaves method, path, query and protocol
\* unset, all four; a request line that fits sets all four to what was sent; a
\* header line with a name of 128 bytes or more or a value of 512 or more adds
\* no entry, and one that fits is stored as sent.
C18_OverlongRejected ==
    (pc = "parsed" /\ call.op = "parse") =>
        LET pt == call.parts
        IN  /\ LineFields(req) = IF LongRequestLine(pt) THEN <<NULL, NULL, NULL, NULL>>
                                 ELSE <<pt.method, pt.path,
                                        IF pt.query = NULL THEN "" ELSE pt.query,
                                        pt.protocol>>
            /\ Stored(req.headers) = IF pt.header = NoHeader \/ LongHeader(pt) THEN <<>>
                                     ELSE <<pt.header>>

\* a request whose path alone is too long, with a header line that fits
C18_Witness ==
    /\ pc = "parsed"
    /\ call.op = "parse"
    /\ Len(call.parts.path) = PATH_SIZE
    /\ Len(call.parts.method) < METHOD_SIZE
    /\ req.method = NULL
    /\ Len(Stored(req.headers)) = 1

\* the place of the first event of that kind, 0 when there is none
FirstEvent(kind) ==
    LET S == {i \in 1 .. Len(events) : events[i].kind = kind}
    IN  IF S = {} THEN 0 ELSE Min(S)

\* C19: a connection for which a response was sent gets exactly one
\* access-log line, written after the send and before the request and the
\* response are released, with the status code and the body length of that
\* response; a connection dropped without a response gets none; and without
\* an access-log sink the log step writes nothing and changes nothing.
C19_OneAccessLinePerResponse ==
    /\ [](Len(access_lines) = IF HasEvent("log") /\ access_log THEN 1 ELSE 0)
    /\ [](pc \in {"cleanup", "closed"} => (HasEvent("log") <=> HasEvent("send")))
    /\ [](HasEvent("log") =>
             /\ FirstEvent("send") # 0
             /\ FirstEvent("send") < FirstEvent("log")
             /\ Len(EventsOf("log")) = 1
             /\ HasEvent("release") => FirstEvent("log") < FirstEvent("release"))
    /\ [](pc = "cleanup" => {"req", "resp"} \subseteq live)
    /\ [](access_lines # <<>> =>
             /\ access_lines[1].status = resp.status_code
             /\ access_lines[1].size = resp.body_length)
    /\ [][pc = "log" =>
            /\ UNCHANGED <<req, resp, wire, live, client_socket>>
            /\ ~access_log => UNCHANGED access_lines]_vars

\* a 404 was sent, logged with its status and size, and the connection closed
C19_Witness ==
    /\ pc = "closed"
    /\ HasEvent("send")
    /\ Len(access_lines) = 1
    /\ access_lines[1].status = 404
    /\ access_lines[1].size = resp.body_length
    /\ resp.body_length > 0

\* the string s ends with the string e
EndsWith(s, e) == Len(s) >= Len(e) /\ SubSeq(s, Len(s) - Len(e) + 1, Len(s)) = e

\* the Content-Type the suffix after the last '.' of the path asks for, NULL
\* for any other suffix and for none
SuffixType(path) ==
    CASE EndsWith(path, ".html") \/ EndsWith(path, ".htm") -> "text/html"
      [] EndsWith(path, ".css") -> "text/css"
      [] EndsWith(path, ".js") -> "application/javascript"
      [] EndsWith(path, ".json") -> "application/json"
      [] EndsWith(path, ".png") -> "image/png"
      [] EndsWith(path, ".jpg") \/ EndsWith(path, ".jpeg") -> "image/jpeg"
      [] OTHER -> NULL

\* the call of nyx_http_response_file just made added the header the suffix of
\* its path asks for, and no other
TypeHeaderAdded ==
    Stored(resp.headers) =
        IF SuffixType(call.path) = NULL THEN Stored(call.before.headers)
        ELSE Append(Stored(call.before.headers),
                    Entry("Content-Type", SuffixType(call.path)))

\* C20 as stated: on a path that cannot be opened file returns failure with
\* status 404; on an existing file it returns success with status 200, the
\* file size as body length and the Content-Type header of its suffix, or no
\* Content-Type header for any other suffix.
C20_FileServed ==
    call.op = "nyx_http_response_file" =>
        IF ~call.fs.open
        THEN call.ret = -1 /\ resp.status_code = 404
        ELSE /\ call.ret = 0
             /\ resp.status_code = 200
             /\ resp.body_length = Len(call.fs.content)
             /\ TypeHeaderAdded

\* C20 amended: as above when the buffer for the content can be allocated and
\* the header container has room; when the buffer cannot be allocated file
\* returns failure with status 500; when the container is full it is left as
\* it is.
C20_FileServedIfMemory ==
    call.op = "nyx_http_response_file" =>
        IF ~call.fs.open
        THEN call.ret = -1 /\ resp.status_code = 404
        ELSE IF ~call.fs.malloc
        THEN call.ret = -1 /\ resp.status_code = 500
        ELSE /\ call.ret = 0
             /\ resp.status_code = 200
             /\ resp.body_length = Len(call.fs.content)
             /\ resp.body = call.fs.content
             /\ IF Len(Stored(call.before.headers)) < MAX_HEADERS
                THEN TypeHeaderAdded
                ELSE resp.headers = call.before.headers

\* a style sheet two dots deep was served from a response with room
C20_Witness ==
    /\ call.op = "nyx_http_response_file"
    /\ call.path = "a.tar.css"
    /\ call.ret = 0
    /\ resp.body_length = 5
    /\ Stored(resp.headers) = <<Entry("Content-Type", "text/css")>>

\* C21: for every response about to be sent, the status line, the headers,
\* the Content-Length line and the blank line are written within the 8192
\* bytes of the buffer, the running length never passes the size of the
\* buffer, and the header send is given at most 8192 bytes.  (Connections on
\* which something undefined has already happened are left aside.)
C21_SerializationBounded ==
    (pc = "send" /\ resp.headers.alloc /\ ~ub) =>
        /\ ~Serialize(resp).oob
        /\ Serialize(resp).len <= BUFFER_SIZE
        /\ Len(Serialize(resp).text) < BUFFER_SIZE

\* C22: after parsing, the fields host and content_type of the request mirror
\* its header container: each equals what a lookup of "Host", of
\* "Content-Type", returns, and is unset exactly when the lookup finds nothing.
C22_FieldsMirrorHeaders ==
    pc = "handler_get" =>
        /\ req.host = nyx_http_request_get_header(req, "Host")
        /\ req.content_type = nyx_http_request_get_header(req, "Content-Type")

\* the steps that fail for one connection only: accept returns an invalid
\* socket, recv returns 0 or less, a request or a response cannot be allocated
\* (told by what the step is not: a wait, a client, data read, objects made)
AcceptFailure == spc \in {"accept", "in_accept"} /\ spc' \notin {spc, "in_accept", "handle"}
ReadFailure == pc = "read" /\ pc' \notin {"read", "create"}
AllocFailure == pc = "create" /\ pc' \notin {"create", "parse"}

\* C23: a failure of accept, of the read or of the allocation of the request
\* or the response changes neither the running flag nor the listening socket
\* nor a registry, and leaves nyx_httpd_start in its loop, on its way to the
\* next accept; and every connection that is parsed, whatever came before it,
\* goes on to the send and the log.
C23_FailureStaysLocal ==
    /\ [][(AcceptFailure \/ ReadFailure \/ AllocFailure) =>
            /\ UNCHANGED <<running, listen_socket, listen_fd, routes, middlewares>>
            /\ \/ spc' = "loop"
               \/ spc' = "handle" /\ pc' = "closed"]_vars
    /\ []((spc = "handle" /\ pc = "closed") => ~StartReturned)
    /\ []((pc = "closed" /\ HasEvent("parse")) => (HasEvent("send") /\ HasEvent("log")))

\* an accept failed while the server ran, and a later connection was served
C23_Witness ==
    /\ error_lines # <<>>
    /\ error_lines[1] = StartError("accept")
    /\ running
    /\ listen_fd = "open"
    /\ pc = "closed"
    /\ HasEvent("send")
    /\ HasEvent("log")
    /\ wire # <<>>

\* the first route registered for that method and path, 0 when there is none
FirstRouteFor(method, path) ==
    LET S == {i \in 1 .. Len(route_args) :
                 route_args[i].method = method /\ route_args[i].path = path}
    IN  IF S = {} THEN 0 ELSE Min(S)

\* the request for the target t was parsed and routed as a request for its
\* path alone is
SplitAndRouted(t) ==
    /\ HasEvent("parse")
          => /\ req.method = "GET"
             /\ req.path = t.path
             /\ req.query_string = IF t.query = NULL THEN "" ELSE t.query
             /\ req.protocol = t.protocol
    /\ HasEvent("match") => matched = FirstRouteFor("GET", t.path)

C25_ListenSocketClosedOnce ==
    /\ listen_fd # "closed_again"
    /\ srv = "destroyed" => listen_fd # "open"

\* what each response helper leaves of the response r
Helped(r) ==
    {nyx_http_response_json(r, 201, "{}"), nyx_http_response_html(r, 500, "<p>"),
     nyx_http_response_text(r, 204, NULL), nyx_http_response_error(r, 403, "Forbidden"),
     nyx_http_response_error(r, 404, NULL),
     nyx_http_response_set_header(r, "Status", "Not Found")}
    \cup {nyx_http_response_file(r, path, fs).resp :
             path \in {"index.html", "README"}, fs \in FileStates}

\* the status line send_response writes for the status code of r when the
\* status text is "OK"
StatusLineOK(r) == "HTTP/1.1 " \o Decimal(r.status_code) \o " OK" \o CRLF

\* C26: the status text of a response is "OK" from its creation on: no stage
\* of the pipeline changes it, no helper applied to the response would, and
\* every header block sent begins with "HTTP/1.1 <status> OK", the
\* synthesized 404 included.
C26_StatusTextStaysOK ==
    /\ resp.alloc =>
          /\ resp.status_text = "OK"
          /\ \A h \in Helped(resp) : h.status_text = "OK"
    /\ \A i \in 1 .. Len(wire) :
          wire[i].kind = "headers" => IsPrefix(StatusLineOK(resp), wire[i].bytes)

\* a request no route matched was answered with the status line "HTTP/1.1 404 OK"
C26_Witness ==
    /\ HasEvent("default404")
    /\ wire # <<>>
    /\ wire[1].kind = "headers"
    /\ IsPrefix("HTTP/1.1 404 OK" \o CRLF, wire[1].bytes)

====
